---- MODULE Spec2Model ----
(***************************************************************************)
(* win-disk-info: disk/partition enumeration over a WMI-like query         *)
(* collaborator (windows_storage.rs), directory walks producing file       *)
(* records (file_extraction.rs, models/file.rs).                           *)
(*                                                                         *)
(* Strings that the code takes apart (device identifiers, captions, mount  *)
(* paths) are sequences of one-character strings; strings that are only    *)
(* cloned and compared are TLA+ strings.                                   *)
(***************************************************************************)
EXTENDS Integers, Sequences, FiniteSets, TLC

\* ------------------------------------------------------------------ bounds
MaxDisks == 2
MaxParts == 2
MaxEntries == 3
MaxSuffix == 2
MaxRecords == 3

\* ------------------------------------------------------------- characters
BS == "\\"

Digits == {"0", "1", "2", "3", "4", "5", "6", "7", "8", "9"}

DigitVal(c) ==
    CASE c = "0" -> 0 [] c = "1" -> 1 [] c = "2" -> 2 [] c = "3" -> 3
      [] c = "4" -> 4 [] c = "5" -> 5 [] c = "6" -> 6 [] c = "7" -> 7
      [] c = "8" -> 8 [] c = "9" -> 9

DigitChar(n) == <<"0", "1", "2", "3", "4", "5", "6", "7", "8", "9">>[n + 1]

PHYSICALDRIVE == <<"P", "H", "Y", "S", "I", "C", "A", "L", "D", "R", "I", "V", "E">>

\* "\\.\" : the device namespace prefix of a Win32 device identifier
DevPrefix == <<BS, BS, ".", BS>>

\* u32::MAX, 4294967295, as its decimal digits (it exceeds the checker's
\* integers, so the range test of the parser is done on the digits)
U32MaxDigits == <<"4", "2", "9", "4", "9", "6", "7", "2", "9", "5">>

\* ---------------------------------------------------------------- Option<T>
Some(x) == [some |-> TRUE, val |-> x]
Nothing == [some |-> FALSE, val |-> 0]

\* ----------------------------------------------------------------------- u64
\* a u64 is its eight bytes, least significant first
U64Zero == <<0, 0, 0, 0, 0, 0, 0, 0>>

\* the u64 of a number below 2^31
U64Of(n) ==
    [i \in 1..8 |->
        CASE i = 1 -> n % 256
          [] i = 2 -> (n \div 256) % 256
          [] i = 3 -> (n \div 65536) % 256
          [] i = 4 -> (n \div 16777216) % 256
          [] OTHER -> 0]

\* whether a u64 is below 2^31, and the number it then is
U64IsSmall(a) == a[4] < 128 /\ \A i \in 5..8 : a[i] = 0
U64ToNat(a) == a[1] + 256 * a[2] + 65536 * a[3] + 16777216 * a[4]

\* a <= b
U64Leq(a, b) ==
    \/ a = b
    \/ \E i \in 1..8 : a[i] < b[i] /\ \A j \in (i + 1)..8 : a[j] = b[j]

\* a * m for a multiplier m below 2^16: the low 64 bits of the product, and
\* whether the product went past them
RECURSIVE U64MulCarry(_, _, _)
U64MulCarry(a, m, i) == IF i = 0 THEN 0 ELSE (a[i] * m + U64MulCarry(a, m, i - 1)) \div 256
U64Mul(a, m) ==
    [val |-> [i \in 1..8 |-> (a[i] * m + U64MulCarry(a, m, i - 1)) % 256],
     overflow |-> U64MulCarry(a, m, 8) > 0]

\* a + b: the low 64 bits of the sum, and whether the sum went past them
RECURSIVE U64AddCarry(_, _, _)
U64AddCarry(a, b, i) == IF i = 0 THEN 0 ELSE (a[i] + b[i] + U64AddCarry(a, b, i - 1)) \div 256
U64Add(a, b) ==
    [val |-> [i \in 1..8 |-> (a[i] + b[i] + U64AddCarry(a, b, i - 1)) % 256],
     overflow |-> U64AddCarry(a, b, 8) > 0]

\* a - b: the low 64 bits of the difference, and whether b was above a
RECURSIVE U64SubBorrow(_, _, _)
U64SubBorrow(a, b, i) ==
    IF i = 0 THEN 0 ELSE IF a[i] - b[i] - U64SubBorrow(a, b, i - 1) < 0 THEN 1 ELSE 0
U64Sub(a, b) ==
    [val |-> [i \in 1..8 |-> (a[i] - b[i] - U64SubBorrow(a, b, i - 1) + 256) % 256],
     overflow |-> U64SubBorrow(a, b, 8) > 0]

\* how the build treats an arithmetic overflow: with overflow checks (the
\* default of a debug build) it panics, without them (the default of a
\* release build) the result wraps
Builds == {"debug", "release"}

\* ------------------------------------------------------------ wmi::Variant
Str(s) == [t |-> "String", v |-> s]
UI8(n) == [t |-> "UI8", v |-> n]
UI4(n) == [t |-> "UI4", v |-> n]
UI2(n) == [t |-> "UI2", v |-> n]
Bool(b) == [t |-> "Bool", v |-> b]
Arr(a) == [t |-> "Array", v |-> a]
Absent == [t |-> "Absent", v |-> 0]

\* HashMap<String, Variant>::get / insert / remove
Get(map, key) == IF key \in DOMAIN map THEN map[key] ELSE Absent
Insert(map, key, val) ==
    [k \in DOMAIN map \cup {key} |-> IF k = key THEN val ELSE map[k]]
Remove(map, key) == [k \in DOMAIN map \ {key} |-> map[k]]

\* ------------------------------------------------------- program constants
REMOVABLE_MEDIA_CAPABILITY == "Supports Removable Media"
MEDIA_TYPE_HDD == 3
MEDIA_TYPE_SSD == 4
MEDIA_TYPE_SCM == 5

\* ------------------------------------------------------ value extractors
get_string_value(map, key) ==
    LET x == Get(map, key) IN IF x.t = "String" THEN Some(x.v) ELSE Nothing

get_u64_value(map, key) ==
    LET x == Get(map, key) IN IF x.t = "UI8" THEN Some(x.v) ELSE Nothing

\* an extractor that takes a missing or mistyped flag for false
get_bool_value_or_false(map, key) ==
    LET x == Get(map, key) IN IF x.t = "Bool" THEN Some(x.v) ELSE Some(FALSE)

get_bool_value(map, key) ==
    LET x == Get(map, key) IN IF x.t = "Bool" THEN Some(x.v) ELSE Nothing

\* --------------------------------------------------------- get_disk_kind
HDD == [kind |-> "HDD", code |-> 0]
SSD == [kind |-> "SSD", code |-> 0]
SCM == [kind |-> "SCM", code |-> 0]
UnknownKind(c) == [kind |-> "Unknown", code |-> c]

\* a get_disk_kind that gives up when the record has no usable Kind
get_disk_kind_strict(disk_info) ==
    LET x == Get(disk_info, "Kind") IN
    IF x.t = "UI2"
    THEN IF x.v = MEDIA_TYPE_HDD THEN Some(HDD)
         ELSE IF x.v = MEDIA_TYPE_SSD THEN Some(SSD)
         ELSE IF x.v = MEDIA_TYPE_SCM THEN Some(SCM)
         ELSE Some(UnknownKind(x.v))
    ELSE Nothing

get_disk_kind(disk_info) ==
    LET x == Get(disk_info, "Kind") IN
    IF x.t = "UI2"
    THEN IF x.v = MEDIA_TYPE_HDD THEN Some(HDD)
         ELSE IF x.v = MEDIA_TYPE_SSD THEN Some(SSD)
         ELSE IF x.v = MEDIA_TYPE_SCM THEN Some(SCM)
         ELSE Some(UnknownKind(x.v))
    ELSE Some(UnknownKind(-1))

\* ----------------------------------------------------- create_file_system
\* a match on the type name that ignores case
SupportedFileSystemFromAnyCase(s) ==
    IF s \in {"NTFS", "ntfs", "Ntfs"} THEN [tag |-> "NTFS", name |-> ""]
    ELSE IF s \in {"FAT32", "fat32", "Fat32"} THEN [tag |-> "FAT32", name |-> ""]
    ELSE IF s \in {"exFAT", "EXFAT", "exfat"} THEN [tag |-> "EXFAT", name |-> ""]
    ELSE [tag |-> "NotImplemented", name |-> s]

\* impl From<&str> for SupportedFileSystem
SupportedFileSystemFrom(s) ==
    IF s = "NTFS" THEN [tag |-> "NTFS", name |-> ""]
    ELSE IF s = "FAT32" THEN [tag |-> "FAT32", name |-> ""]
    ELSE IF s = "exFAT" THEN [tag |-> "EXFAT", name |-> ""]
    ELSE [tag |-> "NotImplemented", name |-> s]

\* FileSystem::{NTFS, FAT32, EXFAT}(path) and NotImplemented(name, path)
FileSystem(tag, name, path) == [tag |-> tag, name |-> name, path |-> path]

create_file_system(fs_type, mount_path) ==
    LET sup == SupportedFileSystemFrom(fs_type) IN
    Some(FileSystem(sup.tag, sup.name, mount_path))

\* ---------------------------------------------------- extract_disk_number
\* a parse of the whole identifier, without the split on backslashes
WholeIdentifier(s) == s

\* str::split('\\').last(): what follows the last backslash
RECURSIVE LastSegment(_)
LastSegment(s) ==
    IF \E i \in 1..Len(s) : s[i] = BS
    THEN LastSegment(Tail(s))
    ELSE s

HasPrefix(s, p) == Len(s) >= Len(p) /\ SubSeq(s, 1, Len(p)) = p

\* str::trim_start_matches(pat): strips every leading repetition of pat
RECURSIVE TrimStartMatches(_, _)
TrimStartMatches(s, pat) ==
    IF Len(pat) > 0 /\ HasPrefix(s, pat)
    THEN TrimStartMatches(SubSeq(s, Len(pat) + 1, Len(s)), pat)
    ELSE s

RECURSIVE DigitsValue(_)
DigitsValue(s) ==
    IF s = <<>> THEN 0
    ELSE 10 * DigitsValue(SubSeq(s, 1, Len(s) - 1)) + DigitVal(s[Len(s)])

RECURSIVE StripZeros(_)
StripZeros(s) == IF Len(s) > 0 /\ s[1] = "0" THEN StripZeros(Tail(s)) ELSE s

\* a <= b for digit strings of one length
RECURSIVE DigitsLeq(_, _)
DigitsLeq(a, b) ==
    IF a = <<>> THEN TRUE
    ELSE IF DigitVal(a[1]) < DigitVal(b[1]) THEN TRUE
    ELSE IF DigitVal(a[1]) > DigitVal(b[1]) THEN FALSE
    ELSE DigitsLeq(Tail(a), Tail(b))

\* the overflow test of the parser: the number does not exceed u32::MAX
FitsU32(digits) ==
    LET d == StripZeros(digits) IN
    \/ Len(d) < Len(U32MaxDigits)
    \/ Len(d) = Len(U32MaxDigits) /\ DigitsLeq(d, U32MaxDigits)

\* <u32 as FromStr>::from_str: an optional '+', then one or more decimal
\* digits, and the value must fit 32 bits
ParseU32(s) ==
    LET body == IF Len(s) > 0 /\ s[1] = "+" THEN Tail(s) ELSE s IN
    IF Len(body) = 0 THEN Nothing
    ELSE IF \E i \in 1..Len(body) : body[i] \notin Digits THEN Nothing
    ELSE IF ~FitsU32(body) THEN Nothing
    ELSE Some(DigitsValue(body))

extract_disk_number(device_id) ==
    LET parsed == ParseU32(TrimStartMatches(LastSegment(device_id), PHYSICALDRIVE)) IN
    IF parsed.some THEN parsed.val ELSE 0

\* ------------------------------------------------- caption normalisation
IsWhitespace(c) == c \in {" ", "\t"}

\* length of the leading run of non-whitespace characters
WordLen(s) ==
    IF \E i \in 1..Len(s) : IsWhitespace(s[i])
    THEN (CHOOSE i \in 1..Len(s) :
              IsWhitespace(s[i]) /\ \A j \in 1..(i - 1) : ~IsWhitespace(s[j])) - 1
    ELSE Len(s)

\* str::split_whitespace().collect::<Vec<_>>()
RECURSIVE SplitWhitespace(_)
SplitWhitespace(s) ==
    IF s = <<>> THEN <<>>
    ELSE IF IsWhitespace(s[1]) THEN SplitWhitespace(Tail(s))
    ELSE <<SubSeq(s, 1, WordLen(s))>>
             \o SplitWhitespace(SubSeq(s, WordLen(s) + 1, Len(s)))

\* [&str]::join(" ")
RECURSIVE JoinSpace(_)
JoinSpace(words) ==
    IF words = <<>> THEN <<>>
    ELSE IF Len(words) = 1 THEN words[1]
    ELSE words[1] \o <<" ">> \o JoinSpace(Tail(words))

\* ------------------------------------------------------ domain values
\* Disk::new
Disk(device_name, model, serial, kind, size, removable, parts) ==
    [device_name |-> device_name, model |-> model, serial |-> serial,
     kind |-> kind, size |-> size, removable |-> removable, partitions |-> parts]

\* Partition::new
Partition(id, name, file_system, total_space, available_space) ==
    [id |-> id, name |-> name, file_system |-> file_system,
     total_space |-> total_space, available_space |-> available_space]

\* ---------------------------------------------- query collaborator (WMI)
\* WMIConnection::raw_query: Err(WMIError) or Ok(rows)
QueryErr == [err |-> TRUE, rows |-> <<>>]
Rows(r) == [err |-> FALSE, rows |-> r]
NotAsked == [err |-> FALSE, rows |-> <<>>]

DeviceIdOf(i) == DevPrefix \o PHYSICALDRIVE \o <<DigitChar((i - 1) % 10)>>
CaptionOf(i) == <<" ", "W", "D", " ", " ", DigitChar(i % 10), " ">>

BaseDisk(i) ==
    [Caption |-> Str(CaptionOf(i)),
     Model |-> Str(<<"W", "D", "C">>),
     SerialNumber |-> Str(<<"S", "N">>),
     Size |-> UI8(2000),
     DeviceID |-> Str(DeviceIdOf(i)),
     CapabilityDescriptions |->
         Arr(<<Str("Random Access"), Str(REMOVABLE_MEDIA_CAPABILITY)>>)]

RequiredDiskKeys == {"Caption", "Model", "SerialNumber", "Size", "DeviceID"}

\* a device identifier without a number after PHYSICALDRIVE
UnnumberedId == DevPrefix \o PHYSICALDRIVE \o <<"x">>

\* Rows of "SELECT * FROM Win32_DiskDrive" the collaborator may list at
\* position i: the well-formed row, rows differing in how removability is
\* described, rows with one required attribute absent or mistyped, and a
\* row whose device identifier carries no number.
DiskRecords(i) ==
    LET b == BaseDisk(i)
        nocap == Remove(b, "CapabilityDescriptions")
        fixed == Insert(b, "CapabilityDescriptions",
                        Arr(<<Str("Random Access"), UI2(7),
                              Str("Supports Removable Media Changer")>>))
    IN {b, fixed, nocap,
        Insert(nocap, "Removable", Bool(TRUE)),
        Insert(fixed, "Removable", Bool(TRUE)),
        Insert(b, "CapabilityDescriptions", Str(REMOVABLE_MEDIA_CAPABILITY)),
        Insert(b, "DeviceID", Str(UnnumberedId))}
       \cup {Remove(b, k) : k \in RequiredDiskKeys}
       \cup {Insert(b, k, UI4(7)) : k \in RequiredDiskKeys}

\* Rows of MSFT_PhysicalDisk WHERE DeviceId = n
StorageRow(n) ==
    [Model |-> Str(<<"P", "D", DigitChar(n % 10)>>),
     FruId |-> Str(<<"F", DigitChar(n % 10)>>),
     MediaType |-> UI2(MEDIA_TYPE_SSD)]

StorageResponses(n) ==
    {QueryErr, Rows(<<>>),
     Rows(<<StorageRow(n), [MediaType |-> UI2(10), Model |-> UI4(1)]>>)}

\* Answers of the disk -> partition associator query: only the number of
\* rows is fixed by the answer, each row is read when the iterator reaches
\* it. `room` is how many more partition rows the scan may still list.
PartitionResponses(room) ==
    {[err |-> TRUE, n |-> 0]} \cup {[err |-> FALSE, n |-> k] : k \in 0..room}

PartitionIdOf(i, j) == <<"D", DigitChar((i - 1) % 10), "P", DigitChar((j - 1) % 10)>>

PartitionRecords(i, j) ==
    {[DeviceID |-> Str(PartitionIdOf(i, j))], [Index |-> UI4(j)]}

DriveLetters == <<"C", "D", "E", "F", "G", "H", "I", "J", "K", "L", "M", "N">>
DriveOf(i, j) == <<DriveLetters[(((i - 1) * 4 + (j - 1)) % 12) + 1], ":">>

FsTypes == <<"NTFS", "EXT4", "exFAT", "FAT32">>
FsTypeOf(j) == FsTypes[((j - 1) % 4) + 1]

GoodLogical(i, j) ==
    [Name |-> Str(DriveOf(i, j)),
     FileSystem |-> Str(FsTypeOf(j)),
     DeviceID |-> Str(DriveOf(i, j)),
     Size |-> UI8(1000),
     FreeSpace |-> UI8(400)]

\* Responses of the partition -> logical disk associator query
LogicalResponses(i, j) ==
    LET g == GoodLogical(i, j) IN
    {QueryErr, Rows(<<>>), Rows(<<g>>),
     Rows(<<Remove(g, "Name")>>),
     Rows(<<Insert(g, "FileSystem", UI4(1))>>),
     Rows(<<Remove(g, "DeviceID")>>),
     Rows(<<Insert(g, "Size", UI4(1000))>>),
     Rows(<<Remove(g, "FreeSpace")>>)}

\* ------------------------------------------------------------- state
VARIABLES
    pc,               \* position inside get_disks
    result,           \* "none" while running, then "Ok" or "Err"
    queries,          \* the kinds of query issued to the collaborator so far
    n_disks,          \* disks_wmi.len()
    idx,              \* position of the disk row being processed (1-based)
    partition_count,  \* the counter shared by every process_partition call
    disks,            \* the Vec<Disk> being collected
    origin,           \* for each collected disk, the position of its row
    cur,              \* the row, responses and extracted values of the disk in hand
    part_n,           \* number of partition rows of the disk in hand
    part_idx,         \* position of the partition row being processed
    partitions,       \* the Vec<Partition> being collected for the disk in hand
    cur_part,         \* the row and response of the partition last processed
    part_rows,        \* partition rows listed so far in this scan (at most MaxParts)
    top,              \* outcome of the Win32_DiskDrive query: "none", "err" or "ok"
    \* a single call of one of the pure functions
    fn,               \* the function called
    fn_arg,           \* its argument
    fn_ret,           \* its return value, once fn_done
    fn_done,
    \* a directory walk (file_extraction.rs)
    walk,             \* what the WalkDir iterator yields, in traversal order
    fpos,             \* position of the next item of the walk
    files,            \* the Vec<FileEntry> being collected
    fresult,          \* "none" while walking, then "Ok" or "Err"
    fret,             \* what get_files returned: Ok(files) or Err(walkdir::Error)
    \* a second scan of the same tree by one of the other functions
    call,             \* "none", or the function called
    pattern,          \* the pattern argument of get_files_by_pattern
    days,             \* the days argument of get_recently_modified_files
    cutoff,           \* its cutoff instant
    cpos,             \* position of the next item of the walk
    cfiles,           \* the Vec<FileEntry> being collected
    total_size,       \* the sum kept by calculate_directory_size
    cret              \* what the call returned, once it has

disk_vars == <<pc, result, queries, n_disks, idx, partition_count, disks, origin,
               cur, part_n, part_idx, partitions, cur_part, part_rows, top>>
fn_vars == <<fn, fn_arg, fn_ret, fn_done>>
scan_vars == <<call, pattern, days, cutoff, cpos, cfiles, total_size, cret>>
file_vars == <<walk, fpos, files, fresult, fret, scan_vars>>
vars == <<disk_vars, fn_vars, file_vars>>

NoCur == [set |-> FALSE]

\* a query error taken for an empty answer
PropagatesNever(resp) == FALSE

\* the `?` on a query result: an Err leaves the function at once
Propagates(resp) == resp.err

\* --------------------------------------------------- update_disk_info
Contains(arr, x) == \E i \in 1..Len(arr) : arr[i].t = x.t /\ arr[i].v = x.v

\* a capability test by prefix instead of by whole element
IsRemovableLoose(capabilities) ==
    \E i \in 1..Len(capabilities) :
        /\ capabilities[i].t = "String"
        /\ capabilities[i].v \in {REMOVABLE_MEDIA_CAPABILITY,
                                   "Supports Removable Media Changer"}

\* capabilities.contains(&Variant::String(REMOVABLE_MEDIA_CAPABILITY))
IsRemovable(capabilities) == Contains(capabilities, Str(REMOVABLE_MEDIA_CAPABILITY))

\* the copy of one attribute of the storage row into disk_info
CopyIf(info, row, from, type, to) ==
    IF Get(row, from).t = type THEN Insert(info, to, Get(row, from)) ELSE info

\* an enrichment that fails when the secondary lookup lists no record
update_disk_info_requires_row(resp, disk_info, device_id) ==
    IF Propagates(resp) \/ Len(resp.rows) = 0 THEN [ok |-> FALSE, info |-> disk_info]
    ELSE LET enriched ==
                 CopyIf(CopyIf(CopyIf(disk_info,
                     resp.rows[1], "Model", "String", "Model"),
                     resp.rows[1], "FruId", "String", "SerialNumber"),
                     resp.rows[1], "MediaType", "UI2", "Kind")
             caps == Get(enriched, "CapabilityDescriptions")
         IN [ok |-> TRUE,
             info |-> IF caps.t = "Array"
                      THEN Insert(enriched, "Removable", Bool(IsRemovable(caps.v)))
                      ELSE enriched]

\* resp is the collaborator's answer to
\* "SELECT * FROM MSFT_PhysicalDisk WHERE DeviceId = extract_disk_number(device_id)"
update_disk_info(resp, disk_info, device_id) ==
    IF Propagates(resp) THEN [ok |-> FALSE, info |-> disk_info]
    ELSE LET enriched ==
                 IF Len(resp.rows) > 0
                 THEN CopyIf(CopyIf(CopyIf(disk_info,
                                 resp.rows[1], "Model", "String", "Model"),
                                 resp.rows[1], "FruId", "String", "SerialNumber"),
                                 resp.rows[1], "MediaType", "UI2", "Kind")
                 ELSE disk_info
             caps == Get(enriched, "CapabilityDescriptions")
         IN [ok |-> TRUE,
             info |-> IF caps.t = "Array"
                      THEN Insert(enriched, "Removable", Bool(IsRemovable(caps.v)))
                      ELSE enriched]

\* ------------------------------------------------------- process_disk
\* device_name of the Disk that process_disk builds
DeviceName(disk_info) == JoinSpace(SplitWhitespace(get_string_value(disk_info, "Caption").val))

\* a process_disk that takes a missing Size for 0 instead of giving up
DiskFieldsOkLenient(disk_info) ==
    /\ get_string_value(disk_info, "Caption").some
    /\ get_string_value(disk_info, "Model").some
    /\ get_string_value(disk_info, "SerialNumber").some
    /\ get_disk_kind(disk_info).some
    /\ get_bool_value(disk_info, "Removable").some
    /\ get_string_value(disk_info, "DeviceID").some

\* the chain of `?` between update_disk_info and get_partitions
DiskFieldsOk(disk_info) ==
    /\ get_string_value(disk_info, "Caption").some
    /\ get_string_value(disk_info, "Model").some
    /\ get_string_value(disk_info, "SerialNumber").some
    /\ get_disk_kind(disk_info).some
    /\ get_u64_value(disk_info, "Size").some
    /\ get_bool_value(disk_info, "Removable").some
    /\ get_string_value(disk_info, "DeviceID").some

\* the values process_disk hands to Disk::new, when every `?` passes
DiskFields(disk_info) ==
    IF DiskFieldsOk(disk_info)
    THEN Some([device_name |-> DeviceName(disk_info),
               model |-> get_string_value(disk_info, "Model").val,
               serial |-> get_string_value(disk_info, "SerialNumber").val,
               kind |-> get_disk_kind(disk_info).val,
               size |-> get_u64_value(disk_info, "Size").val,
               removable |-> get_bool_value(disk_info, "Removable").val,
               device_id |-> get_string_value(disk_info, "DeviceID").val])
    ELSE Nothing

\* ------------------------------------------------- process_partition
\* format!("{}\\", DeviceID of the logical disk)
MountPath(logical_disk) == Append(get_string_value(logical_disk, "DeviceID").val, BS)

\* a process_partition that takes a missing FreeSpace for 0
LogicalFieldsOkLenient(logical_disk) ==
    /\ get_string_value(logical_disk, "Name").some
    /\ get_string_value(logical_disk, "FileSystem").some
    /\ get_string_value(logical_disk, "DeviceID").some
    /\ create_file_system(get_string_value(logical_disk, "FileSystem").val,
                          MountPath(logical_disk)).some
    /\ get_u64_value(logical_disk, "Size").some

\* the chain of `?` of process_partition on the logical-disk row
LogicalFieldsOk(logical_disk) ==
    /\ get_string_value(logical_disk, "Name").some
    /\ get_string_value(logical_disk, "FileSystem").some
    /\ get_string_value(logical_disk, "DeviceID").some
    /\ create_file_system(get_string_value(logical_disk, "FileSystem").val,
                          MountPath(logical_disk)).some
    /\ get_u64_value(logical_disk, "Size").some
    /\ get_u64_value(logical_disk, "FreeSpace").some

\* get_logical_disk: Err on a failed query, else results.into_iter().next()
get_logical_disk(resp) ==
    IF Propagates(resp) THEN [ok |-> FALSE, row |-> Nothing]
    ELSE [ok |-> TRUE,
          row |-> IF Len(resp.rows) > 0 THEN Some(resp.rows[1]) ELSE Nothing]

\* partition_data is the partition row, resp the answer to the query of
\* get_logical_disk for its DeviceID (not asked when the row has none)
process_partition(partition_data, resp, count) ==
    IF ~get_string_value(partition_data, "DeviceID").some THEN Nothing
    ELSE IF ~get_logical_disk(resp).ok \/ ~get_logical_disk(resp).row.some THEN Nothing
    ELSE LET logical_disk == get_logical_disk(resp).row.val IN
         IF LogicalFieldsOk(logical_disk)
         THEN Some(Partition(count,
                             get_string_value(logical_disk, "Name").val,
                             create_file_system(
                                 get_string_value(logical_disk, "FileSystem").val,
                                 MountPath(logical_disk)).val,
                             get_u64_value(logical_disk, "Size").val,
                             get_u64_value(logical_disk, "FreeSpace").val))
         ELSE Nothing

\* a counter that process_partition forgets to advance
NextCountStuck(count, built) == count

\* a counter advanced for every partition row, built or not
NextCountAlways(count, built) == count + 1

\* *partition_count += 1, reached only when the partition is built
NextCount(count, built) == IF built THEN count + 1 ELSE count

\* ------------------------------------------------------------ actions
DiskInit ==
    /\ pc = "start"
    /\ result = "none"
    /\ queries = {}
    /\ n_disks = 0
    /\ idx = 1
    /\ partition_count = 0
    /\ disks = <<>>
    /\ origin = <<>>
    /\ cur = NoCur
    /\ part_n = 0
    /\ part_idx = 1
    /\ partitions = <<>>
    /\ cur_part = NoCur
    /\ part_rows = 0
    /\ top = "none"

\* COMLibrary::new()?, WMIConnection::with_namespace_path(..)?, WMIConnection::new(..)?
Connect ==
    /\ pc = "start"
    /\ \E ok \in BOOLEAN :
         /\ pc' = IF ok THEN "connected" ELSE "done"
         /\ result' = IF ok THEN result ELSE "Err"
    /\ UNCHANGED <<queries, n_disks, idx, partition_count, disks, origin, cur,
                   part_n, part_idx, partitions, cur_part, part_rows, top>>
    /\ UNCHANGED <<fn_vars, file_vars>>

\* wmi_con.raw_query("SELECT * FROM Win32_DiskDrive")?
QueryDisks ==
    /\ pc = "connected"
    /\ queries' = queries \cup {"Win32_DiskDrive"}
    /\ \E resp \in {[err |-> TRUE, n |-> 0]} \cup {[err |-> FALSE, n |-> k] : k \in 0..MaxDisks} :
         /\ top' = IF resp.err THEN "err" ELSE "ok"
         /\ pc' = IF Propagates(resp) THEN "done" ELSE "disks"
         /\ result' = IF Propagates(resp) THEN "Err" ELSE result
         /\ n_disks' = resp.n
    /\ UNCHANGED <<idx, partition_count, disks, origin, cur,
                   part_n, part_idx, partitions, cur_part, part_rows>>
    /\ UNCHANGED <<fn_vars, file_vars>>

\* process_disk up to and including the query of get_partitions
ProcessDisk ==
    /\ pc = "disks"
    /\ idx <= n_disks
    /\ \E disk_wmi \in DiskRecords(idx) :
         LET dev == get_string_value(disk_wmi, "DeviceID") IN
         \E sresp \in IF dev.some THEN StorageResponses(extract_disk_number(dev.val))
                                  ELSE {NotAsked} :
           LET upd == IF dev.some THEN update_disk_info(sresp, disk_wmi, dev.val)
                                  ELSE [ok |-> TRUE, info |-> disk_wmi]
               fields == IF upd.ok THEN DiskFields(upd.info) ELSE Nothing
           IN
           \E presp \in IF fields.some THEN PartitionResponses(MaxParts - part_rows)
                                       ELSE {[err |-> FALSE, n |-> 0]} :
             /\ cur' = [set |-> TRUE, idx |-> idx, base |-> disk_wmi,
                        asked |-> dev.some, sresp |-> sresp, info |-> upd.info,
                        fields |-> fields, presp |-> presp]
             /\ queries' = queries
                    \cup (IF dev.some THEN {"MSFT_PhysicalDisk"} ELSE {})
                    \cup (IF fields.some THEN {"DiskDriveToDiskPartition"} ELSE {})
             /\ IF fields.some /\ ~Propagates(presp)
                THEN /\ pc' = "parts"
                     /\ part_n' = presp.n
                     /\ part_rows' = part_rows + presp.n
                     /\ idx' = idx
                ELSE /\ pc' = "disks"
                     /\ part_n' = 0
                     /\ part_rows' = part_rows
                     /\ idx' = idx + 1
    /\ part_idx' = 1
    /\ partitions' = <<>>
    /\ cur_part' = NoCur
    /\ UNCHANGED <<result, n_disks, partition_count, disks, origin, top>>
    /\ UNCHANGED <<fn_vars, file_vars>>

\* one step of the filter_map of get_partitions
ProcessPartition ==
    /\ pc = "parts"
    /\ part_idx <= part_n
    /\ \E partition_data \in PartitionRecords(idx, part_idx) :
         LET hasId == get_string_value(partition_data, "DeviceID").some IN
         \E resp \in IF hasId THEN LogicalResponses(idx, part_idx) ELSE {NotAsked} :
           LET p == process_partition(partition_data, resp, partition_count) IN
           /\ partitions' = IF p.some THEN Append(partitions, p.val) ELSE partitions
           /\ partition_count' = NextCount(partition_count, p.some)
           /\ queries' = queries \cup (IF hasId THEN {"LogicalDiskToPartition"} ELSE {})
           /\ cur_part' = [set |-> TRUE, row |-> partition_data, asked |-> hasId,
                           resp |-> resp, before |-> Len(partitions)]
    /\ part_idx' = part_idx + 1
    /\ UNCHANGED <<pc, result, n_disks, idx, disks, origin, cur, part_n, part_rows, top>>
    /\ UNCHANGED <<fn_vars, file_vars>>

\* collect() of get_partitions, then Disk::new at the end of process_disk
FinishDisk ==
    /\ pc = "parts"
    /\ part_idx > part_n
    /\ disks' = Append(disks, Disk(cur.fields.val.device_name, cur.fields.val.model,
                                   cur.fields.val.serial, cur.fields.val.kind,
                                   cur.fields.val.size, cur.fields.val.removable,
                                   partitions))
    /\ origin' = Append(origin, idx)
    /\ idx' = idx + 1
    /\ pc' = "disks"
    /\ cur_part' = NoCur
    /\ UNCHANGED <<result, queries, n_disks, partition_count, cur, part_n, part_idx,
                   partitions, part_rows, top>>
    /\ UNCHANGED <<fn_vars, file_vars>>

\* Ok(disks)
ReturnDisks ==
    /\ pc = "disks"
    /\ idx > n_disks
    /\ pc' = "done"
    /\ result' = "Ok"
    /\ UNCHANGED <<queries, n_disks, idx, partition_count, disks, origin, cur,
                   part_n, part_idx, partitions, cur_part, part_rows, top>>
    /\ UNCHANGED <<fn_vars, file_vars>>

DiskNext == Connect \/ QueryDisks \/ ProcessDisk \/ ProcessPartition \/ FinishDisk \/ ReturnDisks

\* the other two machines at rest
FnIdle == fn = "none" /\ fn_arg = 0 /\ fn_ret = 0 /\ fn_done = FALSE
\* a Result returned by a scan
NoRet == [done |-> FALSE]
RetOk(v) == [done |-> TRUE, ok |-> TRUE, val |-> v]
RetErr(e) == [done |-> TRUE, ok |-> FALSE, err |-> e]
ScanIdle ==
    /\ call = "none" /\ pattern = <<>> /\ days = U64Zero /\ cutoff = 0 /\ cpos = 0
    /\ cfiles = <<>> /\ total_size = 0 /\ cret = NoRet
FileIdle ==
    /\ walk = <<>> /\ fpos = 0 /\ files = <<>> /\ fresult = "none" /\ fret = NoRet
    /\ ScanIdle
DiskIdle ==
    /\ pc = "off" /\ result = "none" /\ queries = {} /\ n_disks = 0 /\ idx = 1
    /\ partition_count = 0 /\ disks = <<>> /\ origin = <<>> /\ cur = NoCur
    /\ part_n = 0 /\ part_idx = 1 /\ partitions = <<>> /\ cur_part = NoCur
    /\ part_rows = 0 /\ top = "none"

Init == DiskInit /\ FnIdle /\ FileIdle
Next == DiskNext
Spec == Init /\ [][Next]_vars

\* ======================================================== get_disks claims
Last(s) == s[Len(s)]
IsPrefix(a, b) == Len(a) <= Len(b) /\ SubSeq(b, 1, Len(a)) = a
InSeq(x, s) == \E k \in 1..Len(s) : s[k] = x
StrictlyIncreasing(s) == \A a, b \in 1..Len(s) : a < b => s[a] < s[b]
AttrIs(row, key, type) == key \in DOMAIN row /\ row[key].t = type

\* partition ids of a disk list, in disk order then partition order
RECURSIVE IdsOf(_)
IdsOf(ds) ==
    IF ds = <<>> THEN <<>>
    ELSE [k \in 1..Len(ds[1].partitions) |-> ds[1].partitions[k].id] \o IdsOf(Tail(ds))

\* the disk in hand has been skipped or collected
Decided == cur.set /\ pc \in {"disks", "done"}
\* the disk in hand has been collected
Collected == Decided /\ Len(origin) > 0 /\ Last(origin) = cur.idx

\* C1: the partition ids of the collected disks, read in disk order and then
\* in partition order, are strictly increasing (hence pairwise distinct); the
\* counter is not reset between disks.
C1_IdsStrictlyIncreasing == StrictlyIncreasing(IdsOf(disks))

C1_Witness ==
    /\ result = "Ok"
    /\ Len(disks) = 2
    /\ Len(disks[1].partitions) = 1
    /\ Len(disks[2].partitions) = 1
    /\ disks[2].partitions[1].id = 1

\* the six attributes process_disk requires, with their value types, in the
\* record as enriched by the secondary lookup
RequiredPresent(info) ==
    /\ AttrIs(info, "Caption", "String")
    /\ AttrIs(info, "Model", "String")
    /\ AttrIs(info, "SerialNumber", "String")
    /\ AttrIs(info, "Size", "UI8")
    /\ AttrIs(info, "Removable", "Bool")
    /\ AttrIs(info, "DeviceID", "String")

DiskFault(c) ==
    \/ c.asked /\ c.sresp.err
    \/ ~RequiredPresent(c.info)
    \/ c.presp.err

C2_State ==
    /\ (top = "ok" /\ pc = "done" => result = "Ok")
    /\ (Decided => (DiskFault(cur) <=> ~InSeq(cur.idx, origin)))
    /\ StrictlyIncreasing(origin)
    /\ Len(origin) = Len(disks)

\* C2: a disk with a required attribute absent or mistyped, or whose
\* secondary lookup or partition query fails, is the only one left out:
\* get_disks returns Ok, every other disk is collected, in the order listed,
\* and a collected disk is never dropped again.
C2_FaultyDiskAloneExcluded ==
    /\ []C2_State
    /\ [][IsPrefix(disks, disks') /\ IsPrefix(origin, origin')]_vars

C2_Witness ==
    /\ result = "Ok"
    /\ n_disks = 2
    /\ origin = <<1>>
    /\ cur.idx = 2
    /\ cur.asked /\ ~cur.sresp.err
    /\ ~AttrIs(cur.info, "SerialNumber", "String")

\* C3: when the Win32_DiskDrive query fails, get_disks returns Err with no
\* disk collected, and no other query is issued.
C3_TopQueryFailureIsFatal ==
    top = "err" =>
        /\ pc = "done"
        /\ result = "Err"
        /\ disks = <<>>
        /\ queries = {"Win32_DiskDrive"}

C3_Witness == top = "err" /\ pc = "done" /\ result = "Err"

LogicalFault(cp) ==
    \/ cp.resp.err
    \/ Len(cp.resp.rows) = 0
    \/ ~(/\ AttrIs(cp.resp.rows[1], "Name", "String")
         /\ AttrIs(cp.resp.rows[1], "FileSystem", "String")
         /\ AttrIs(cp.resp.rows[1], "DeviceID", "String")
         /\ AttrIs(cp.resp.rows[1], "Size", "UI8")
         /\ AttrIs(cp.resp.rows[1], "FreeSpace", "UI8"))

C4_State ==
    pc = "parts" /\ cur_part.set /\ cur_part.asked /\ LogicalFault(cur_part)
        => partitions = SubSeq(partitions, 1, cur_part.before)

\* C4: a partition whose logical-disk lookup fails, is empty, or lacks a
\* string Name, FileSystem or DeviceID or an unsigned-64 Size or FreeSpace is
\* left out of the partition list; the partitions already kept stay, and the
\* disk is collected with the list as it stands.
C4_FaultyPartitionOmitted ==
    /\ []C4_State
    /\ [][/\ (pc = "parts" /\ pc' = "parts" => IsPrefix(partitions, partitions'))
          /\ (pc = "parts" /\ pc' = "disks" =>
                 /\ Len(disks') = Len(disks) + 1
                 /\ IsPrefix(disks, disks')
                 /\ Last(disks').partitions = partitions)]_vars

C4_Witness ==
    /\ pc = "parts"
    /\ cur_part.set /\ cur_part.asked
    /\ ~cur_part.resp.err
    /\ Len(cur_part.resp.rows) = 1
    /\ ~AttrIs(cur_part.resp.rows[1], "FreeSpace", "UI8")
    /\ cur_part.before = 1
    /\ Len(partitions) = 1

CapsArray(row) == AttrIs(row, "CapabilityDescriptions", "Array")
CapsHas(row) ==
    /\ CapsArray(row)
    /\ \E k \in 1..Len(row["CapabilityDescriptions"].v) :
          /\ row["CapabilityDescriptions"].v[k].t = "String"
          /\ row["CapabilityDescriptions"].v[k].v = "Supports Removable Media"

\* C6 as stated: a collected disk is removable exactly when its
\* capability-description list contains "Supports Removable Media".
C6_RemovableIffCapability ==
    Collected => (Last(disks).removable <=> CapsHas(cur.base))

\* C6, amended: for a collected disk whose record has a capability-description
\* array, removable is true exactly when the array has the element
\* "Supports Removable Media"; without such an array, removable is the
\* record's own boolean Removable attribute.
C6_RemovableFromCapabilityOrOwn ==
    Collected =>
        IF CapsArray(cur.base)
        THEN Last(disks).removable <=> CapsHas(cur.base)
        ELSE /\ AttrIs(cur.base, "Removable", "Bool")
             /\ Last(disks).removable = cur.base["Removable"].v

C6_Witness ==
    /\ Collected
    /\ CapsArray(cur.base)
    /\ ~CapsHas(cur.base)
    /\ AttrIs(cur.base, "Removable", "Bool")
    /\ cur.base["Removable"].v
    /\ ~Last(disks).removable

\* C9 as stated: device_name() of a collected disk is the DeviceID of its row.
C9_DeviceNameIsDeviceId ==
    Collected =>
        /\ AttrIs(cur.base, "DeviceID", "String")
        /\ Last(disks).device_name = cur.base["DeviceID"].v

\* ============================================== calls of the pure functions
\* sequences over a set, of length at most n
RECURSIVE SeqsUpTo(_, _)
SeqsUpTo(S, n) ==
    IF n = 0 THEN {<<>>}
    ELSE SeqsUpTo(S, n - 1)
           \cup {Append(q, c) : q \in {r \in SeqsUpTo(S, n - 1) : Len(r) = n - 1}, c \in S}

\* records handed to get_disk_kind: a 16-bit Kind, no Kind, a Kind of
\* another variant; 65535 is u16::MAX
KindInputs ==
    {[Kind |-> UI2(c)] : c \in {0, 1, 2, 3, 4, 5, 6, 10, 65535}}
      \cup {[Model |-> Str(<<"W">>)],
            [Kind |-> UI4(3)], [Kind |-> UI8(4)], [Kind |-> Str(<<"5">>)],
            [Kind |-> Bool(TRUE)]}

FsInputs ==
    [type : {"NTFS", "FAT32", "exFAT", "EXT4", "XFS", "ntfs", "EXFAT", "Fat32", ""},
     mount : {<<"C", ":", BS>>, <<"F", ":", BS>>, <<>>}]

\* device identifiers, in three parts: id = pre \o body \o suf. The digit
\* string of the bodies is u32::MAX + 1.
IdPre == {<<>>, DevPrefix, <<"C", ":", BS>>}
IdBody ==
    {<<>>, PHYSICALDRIVE, PHYSICALDRIVE \o PHYSICALDRIVE,
     <<"d", "i", "s", "k">>, <<"i", "n", "v", "a", "l", "i", "d">>,
     <<"4", "2", "9", "4", "9", "6", "7", "2", "9", "6">>,
     PHYSICALDRIVE \o <<"4", "2", "9", "4", "9", "6", "7", "2", "9", "6">>}
IdSuf == SeqsUpTo({"0", "1", "9", "a", "+"}, MaxSuffix)
IdInputs == [pre : IdPre, body : IdBody, suf : IdSuf]
IdOf(a) == a.pre \o a.body \o a.suf

FnInit ==
    \/ fn = "get_disk_kind" /\ fn_arg \in KindInputs /\ fn_ret = 0 /\ fn_done = FALSE
    \/ fn = "create_file_system" /\ fn_arg \in FsInputs /\ fn_ret = 0 /\ fn_done = FALSE
    \/ fn = "extract_disk_number" /\ fn_arg \in IdInputs /\ fn_ret = 0 /\ fn_done = FALSE

CallGetDiskKind ==
    /\ fn = "get_disk_kind" /\ ~fn_done
    /\ fn_ret' = get_disk_kind(fn_arg)
    /\ fn_done' = TRUE
    /\ UNCHANGED <<fn, fn_arg, disk_vars, file_vars>>

CallCreateFileSystem ==
    /\ fn = "create_file_system" /\ ~fn_done
    /\ fn_ret' = create_file_system(fn_arg.type, fn_arg.mount)
    /\ fn_done' = TRUE
    /\ UNCHANGED <<fn, fn_arg, disk_vars, file_vars>>

CallExtractDiskNumber ==
    /\ fn = "extract_disk_number" /\ ~fn_done
    /\ fn_ret' = extract_disk_number(IdOf(fn_arg))
    /\ fn_done' = TRUE
    /\ UNCHANGED <<fn, fn_arg, disk_vars, file_vars>>

FnNext == CallGetDiskKind \/ CallCreateFileSystem \/ CallExtractDiskNumber

InitFn == FnInit /\ DiskIdle /\ FileIdle
SpecFn == InitFn /\ [][FnNext]_vars

\* C5: get_disk_kind maps code 3 to HDD, 4 to SSD, 5 to SCM, any other
\* 16-bit code c to Unknown(c), and a record with no 16-bit Kind to
\* Unknown(-1); it yields a kind for every record.
C5_DiskKindMapping ==
    fn = "get_disk_kind" /\ fn_done =>
        /\ fn_ret.some
        /\ IF AttrIs(fn_arg, "Kind", "UI2")
           THEN /\ (fn_arg["Kind"].v = 3 => fn_ret.val.kind = "HDD")
                /\ (fn_arg["Kind"].v = 4 => fn_ret.val.kind = "SSD")
                /\ (fn_arg["Kind"].v = 5 => fn_ret.val.kind = "SCM")
                /\ (fn_arg["Kind"].v \notin {3, 4, 5} =>
                       /\ fn_ret.val.kind = "Unknown"
                       /\ fn_ret.val.code = fn_arg["Kind"].v)
           ELSE fn_ret.val.kind = "Unknown" /\ fn_ret.val.code = -1

C5_Witness ==
    /\ fn = "get_disk_kind" /\ fn_done
    /\ AttrIs(fn_arg, "Kind", "UI4")
    /\ fn_ret.some /\ fn_ret.val.kind = "Unknown" /\ fn_ret.val.code = -1

\* C7: create_file_system matches the type name exactly and with case:
\* "NTFS", "FAT32" and "exFAT" give NTFS, FAT32 and EXFAT, every other name s
\* gives NotImplemented(s, mount); a value comes back for every input and
\* carries the mount path unchanged.
C7_FileSystemMapping ==
    fn = "create_file_system" /\ fn_done =>
        /\ fn_ret.some
        /\ fn_ret.val.path = fn_arg.mount
        /\ (fn_arg.type = "NTFS" => fn_ret.val.tag = "NTFS")
        /\ (fn_arg.type = "FAT32" => fn_ret.val.tag = "FAT32")
        /\ (fn_arg.type = "exFAT" => fn_ret.val.tag = "EXFAT")
        /\ (fn_arg.type \notin {"NTFS", "FAT32", "exFAT"} =>
               /\ fn_ret.val.tag = "NotImplemented"
               /\ fn_ret.val.name = fn_arg.type)

C7_Witness ==
    /\ fn = "create_file_system" /\ fn_done
    /\ fn_arg.type = "EXFAT"
    /\ fn_ret.val.tag = "NotImplemented" /\ fn_ret.val.name = "EXFAT"
    /\ fn_ret.val.path = <<"F", ":", BS>>

\* the longest run of decimal digits that ends the identifier
RECURSIVE TrailingDigits(_)
TrailingDigits(s) ==
    IF Len(s) > 0 /\ s[Len(s)] \in Digits
    THEN Append(TrailingDigits(SubSeq(s, 1, Len(s) - 1)), s[Len(s)])
    ELSE <<>>

\* decimal digits of a natural number
RECURSIVE ToDigits(_)
ToDigits(n) == IF n < 10 THEN <<DigitChar(n)>> ELSE Append(ToDigits(n \div 10), DigitChar(n % 10))

\* the number a digit string denotes, written without leading zeros
Canonical(d) == IF StripZeros(d) = <<>> THEN <<"0">> ELSE StripZeros(d)

AllDigits(s) == \A i \in 1..Len(s) : s[i] \in Digits

\* an optional "\\.\" prefix, PHYSICALDRIVE, one or more decimal digits
IsPhysicalDrive(a) ==
    /\ a.pre \in {<<>>, DevPrefix}
    /\ a.body = PHYSICALDRIVE
    /\ a.suf # <<>>
    /\ AllDigits(a.suf)

SecsPerDay == 24 * 60 * 60

\* SystemTime::now() / Local::now(), in seconds after the earliest instant a
\* SystemTime can hold; the clock does not advance during one scan
Now == 2 * SecsPerDay + 10

Root == <<"r", "/">>
WalkErr == [kind |-> "err"]
Entry(ftype, name, meta) ==
    [kind |-> "entry", ftype |-> ftype, name |-> name, path |-> Root \o name, meta |-> meta]
\* Metadata: whether it can be read, len(), and modified() with its own Result
Meta(len, mtime) == [ok |-> TRUE, len |-> len, mtime_ok |-> TRUE, mtime |-> mtime]
MetaNoTime(len) == [ok |-> TRUE, len |-> len, mtime_ok |-> FALSE, mtime |-> 0]
MetaErr == [ok |-> FALSE, len |-> 0, mtime_ok |-> FALSE, mtime |-> 0]

WalkItems ==
    {WalkErr,
     Entry("dir", <<"d">>, Meta(0, Now - 3)),
     Entry("symlink", <<"l", ".", "t">>, Meta(100, Now - 3)),
     Entry("file", <<"a", ".", "t">>, Meta(100, Now - SecsPerDay)),
     Entry("file", <<"b">>, MetaErr),
     Entry("file", <<"c", ".", "J">>, MetaNoTime(1500)),
     Entry("file", <<".", "h">>, Meta(0, Now - SecsPerDay - 1))}

\* a walk lists no entry twice
NoRepeat(w) ==
    \A a, b \in 1..Len(w) : a < b /\ w[a].kind = "entry" /\ w[b].kind = "entry" => w[a] # w[b]
Walks == {w \in SeqsUpTo(WalkItems, MaxEntries) : NoRepeat(w)}

\* Path::extension of a path whose file name is `name`: what follows the last
\* '.', unless the name has no '.' or only a leading one
Extension(name) ==
    LET dots == {i \in 1..Len(name) : name[i] = "."} IN
    IF dots = {} THEN Nothing
    ELSE LET last == CHOOSE i \in dots : \A j \in dots : j <= i IN
         IF last = 1 THEN Nothing ELSE Some(SubSeq(name, last + 1, Len(name)))

FileEntry(path, name, extension, size, modified) ==
    [path |-> path, name |-> name, extension |-> extension, size |-> size,
     modified |-> modified]

\* FileEntry::from_dir_entry
from_dir_entry(entry) ==
    IF ~entry.meta.ok THEN [ok |-> FALSE, val |-> 0]
    ELSE IF ~entry.meta.mtime_ok THEN [ok |-> FALSE, val |-> 0]
    ELSE [ok |-> TRUE,
          val |-> FileEntry(entry.path, entry.name, Extension(entry.name),
                            entry.meta.len, entry.meta.mtime)]

\* a conversion that keeps whatever length the metadata gave
FileEntryFromKeepLen(entry) ==
    IF from_dir_entry(entry).ok THEN from_dir_entry(entry).val
    ELSE FileEntry(entry.path, entry.name, Nothing, entry.meta.len, Now)

\* impl From<DirEntry> for FileEntry: the fallback record on any error
FileEntryFrom(entry) ==
    IF from_dir_entry(entry).ok THEN from_dir_entry(entry).val
    ELSE FileEntry(entry.path, entry.name, Nothing, 0, Now)

\* a test that lets through everything but directories
IsNotDir(entry) == entry.ftype # "dir"

\* entry.file_type().is_file()
IsFile(entry) == entry.ftype = "file"

FileInit ==
    /\ walk \in Walks
    /\ fpos = 1
    /\ files = <<>>
    /\ fresult = "none"
    /\ fret = NoRet
    /\ ScanIdle

\* one turn of the loop of get_files: `entry?`, then the push of a file
GetFilesStep ==
    /\ fresult = "none"
    /\ fpos <= Len(walk)
    /\ IF walk[fpos].kind = "err"
       THEN fresult' = "Err" /\ files' = files /\ fret' = RetErr("WalkDir")
       ELSE /\ fresult' = fresult
            /\ fret' = fret
            /\ files' = IF IsFile(walk[fpos])
                        THEN Append(files, FileEntryFrom(walk[fpos]))
                        ELSE files
    /\ fpos' = fpos + 1
    /\ UNCHANGED <<walk, scan_vars, disk_vars, fn_vars>>

\* Ok(files)
GetFilesReturn ==
    /\ fresult = "none"
    /\ fpos > Len(walk)
    /\ fresult' = "Ok"
    /\ fret' = RetOk(files)
    /\ UNCHANGED <<walk, fpos, files, scan_vars, disk_vars, fn_vars>>

\* ------------------------------------------- the other scans of the same tree
\* str::contains: pat occurs in str as a contiguous run (the empty pattern
\* occurs in every string); characters are compared as they are
StrContains(str, pat) ==
    \E i \in 0..(Len(str) - Len(pat)) : SubSeq(str, i + 1, i + Len(pat)) = pat

\* the whole path of the entry, parent directories included
entry_path(entry) == entry.path

\* entry.file_name(): the last component of the entry's path
file_name(entry) == entry.name

Patterns == {<<>>, <<".", "t">>, <<"r">>, <<"j">>}
\* days: a few small values, the largest whose product with 86400 fits a u64
\* (213503982334601), the next one, and u64::MAX
Days ==
    {U64Of(0), U64Of(1), U64Of(2), U64Of(3),
     <<137, 114, 6, 69, 46, 194, 0, 0>>,
     <<138, 114, 6, 69, 46, 194, 0, 0>>,
     <<255, 255, 255, 255, 255, 255, 255, 255>>}

\* a call ended by a panic
Panicked == [done |-> TRUE, ok |-> FALSE, panic |-> TRUE]

\* Duration::from_secs(days * 24 * 60 * 60): the u64 product, which panics
\* or wraps on overflow as the build has it; `past` tells whether the
\* duration reaches back beyond the earliest instant
Duration(d, build) ==
    LET product == U64Mul(d, SecsPerDay) IN
    IF product.overflow /\ build = "debug"
    THEN [panic |-> TRUE, secs |-> U64Zero, past |-> FALSE]
    ELSE [panic |-> FALSE, secs |-> product.val,
          past |-> ~U64Leq(product.val, U64Of(Now))]


\* a scan is started once get_files has returned, on the same tree
CanCall == fresult # "none" /\ call = "none"
\* a scan that goes on with the walk after it has returned
RunningOn(f) == call = f

\* the loop of a scan runs until the function returns
Running(f) == call = f /\ cret = NoRet

\* get_files_by_pattern(path, pattern): entry
CallGetFilesByPattern ==
    /\ CanCall
    /\ \E p \in Patterns : pattern' = p
    /\ call' = "get_files_by_pattern"
    /\ cpos' = 1
    /\ cfiles' = <<>>
    /\ UNCHANGED <<days, cutoff, total_size, cret>>
    /\ UNCHANGED <<walk, fpos, files, fresult, fret, disk_vars, fn_vars>>

\* one turn of its loop
ByPatternStep ==
    /\ Running("get_files_by_pattern")
    /\ cpos <= Len(walk)
    /\ IF walk[cpos].kind = "err"
       THEN cret' = RetErr("WalkDir") /\ cfiles' = cfiles
       ELSE /\ cret' = cret
            /\ cfiles' = IF IsFile(walk[cpos]) /\ StrContains(file_name(walk[cpos]), pattern)
                         THEN Append(cfiles, FileEntryFrom(walk[cpos]))
                         ELSE cfiles
    /\ cpos' = cpos + 1
    /\ UNCHANGED <<call, pattern, days, cutoff, total_size>>
    /\ UNCHANGED <<walk, fpos, files, fresult, fret, disk_vars, fn_vars>>

\* Ok(files)
ByPatternReturn ==
    /\ Running("get_files_by_pattern")
    /\ cpos > Len(walk)
    /\ cret' = RetOk(cfiles)
    /\ UNCHANGED <<call, pattern, days, cutoff, cpos, cfiles, total_size>>
    /\ UNCHANGED <<walk, fpos, files, fresult, fret, disk_vars, fn_vars>>

\* a comparison that leaves out the instant of the cutoff itself
StrictlyAfter(modified, limit) == modified > limit

\* modified >= cutoff
NotBefore(modified, limit) == modified >= limit

\* get_recently_modified_files(path, days): now, duration, cutoff; checked_sub
\* gives None when the cutoff would lie before the earliest instant
CallGetRecentlyModifiedFiles ==
    /\ CanCall
    /\ \E d \in Days, build \in Builds :
          /\ days' = d
          /\ LET duration == Duration(d, build) IN
             IF duration.panic
             THEN cutoff' = 0 /\ cret' = Panicked
             ELSE IF duration.past
             THEN cutoff' = 0 /\ cret' = RetErr("TimeError")
             ELSE cutoff' = Now - U64ToNat(duration.secs) /\ cret' = cret
    /\ call' = "get_recently_modified_files"
    /\ cpos' = 1
    /\ cfiles' = <<>>
    /\ UNCHANGED <<pattern, total_size>>
    /\ UNCHANGED <<walk, fpos, files, fresult, fret, disk_vars, fn_vars>>

\* one turn of its loop: `entry?`, `fs::metadata(..)?`, then the test of the
\* modification time when it can be read
RecentStep ==
    /\ Running("get_recently_modified_files")
    /\ cpos <= Len(walk)
    /\ LET e == walk[cpos] IN
       IF e.kind = "err"
       THEN cret' = RetErr("WalkDir") /\ cfiles' = cfiles
       ELSE IF IsFile(e) /\ ~e.meta.ok
       THEN cret' = RetErr("Io") /\ cfiles' = cfiles
       ELSE /\ cret' = cret
            /\ cfiles' = IF IsFile(e) /\ e.meta.mtime_ok /\ NotBefore(e.meta.mtime, cutoff)
                         THEN Append(cfiles, FileEntryFrom(e))
                         ELSE cfiles
    /\ cpos' = cpos + 1
    /\ UNCHANGED <<call, pattern, days, cutoff, total_size>>
    /\ UNCHANGED <<walk, fpos, files, fresult, fret, disk_vars, fn_vars>>

\* Ok(files)
RecentReturn ==
    /\ Running("get_recently_modified_files")
    /\ cpos > Len(walk)
    /\ cret' = RetOk(cfiles)
    /\ UNCHANGED <<call, pattern, days, cutoff, cpos, cfiles, total_size>>
    /\ UNCHANGED <<walk, fpos, files, fresult, fret, disk_vars, fn_vars>>

\* calculate_directory_size(path): entry
CallCalculateDirectorySize ==
    /\ CanCall
    /\ call' = "calculate_directory_size"
    /\ cpos' = 1
    /\ total_size' = 0
    /\ UNCHANGED <<pattern, days, cutoff, cfiles, cret>>
    /\ UNCHANGED <<walk, fpos, files, fresult, fret, disk_vars, fn_vars>>

\* one turn of its loop: `entry?`, then the length of a file whose metadata
\* can be read
SizeStep ==
    /\ Running("calculate_directory_size")
    /\ cpos <= Len(walk)
    /\ LET e == walk[cpos] IN
       IF e.kind = "err"
       THEN cret' = RetErr("WalkDir") /\ total_size' = total_size
       ELSE /\ cret' = cret
            /\ total_size' = IF IsFile(e) /\ e.meta.ok
                             THEN total_size + e.meta.len
                             ELSE total_size
    /\ cpos' = cpos + 1
    /\ UNCHANGED <<call, pattern, days, cutoff, cfiles>>
    /\ UNCHANGED <<walk, fpos, files, fresult, fret, disk_vars, fn_vars>>

\* Ok(total_size)
SizeReturn ==
    /\ Running("calculate_directory_size")
    /\ cpos > Len(walk)
    /\ cret' = RetOk(total_size)
    /\ UNCHANGED <<call, pattern, days, cutoff, cpos, cfiles, total_size>>
    /\ UNCHANGED <<walk, fpos, files, fresult, fret, disk_vars, fn_vars>>

FileNext ==
    \/ GetFilesStep \/ GetFilesReturn
    \/ CallGetFilesByPattern \/ ByPatternStep \/ ByPatternReturn
    \/ CallGetRecentlyModifiedFiles \/ RecentStep \/ RecentReturn
    \/ CallCalculateDirectorySize \/ SizeStep \/ SizeReturn

InitFiles == FileInit /\ DiskIdle /\ FnIdle
SpecFiles == InitFiles /\ [][FileNext]_vars

IsRegular(e) == e.kind = "entry" /\ e.ftype = "file"
RegularFiles(w) == SelectSeq(w, IsRegular)

\* C10: get_files returns one record for each regular file of the walk, in
\* the order of the walk, and none for a directory.
C10_OneRecordPerRegularFile ==
    fresult = "Ok" =>
        /\ Len(files) = Len(RegularFiles(walk))
        /\ \A k \in 1..Len(files) :
              /\ files[k].path = RegularFiles(walk)[k].path
              /\ files[k].name = RegularFiles(walk)[k].name

C10_Witness ==
    /\ fresult = "Ok"
    /\ Len(walk) = 3
    /\ \E k \in 1..3 : walk[k].kind = "entry" /\ walk[k].ftype = "dir"
    /\ \E k \in 1..3 : walk[k].kind = "entry" /\ walk[k].ftype = "symlink"
    /\ Len(files) = 1
    /\ files[1].name = <<"b">>
    /\ files[1].size = 0

\* ======================================================= directory scan claims
\* position of the first Err the walk yields, 0 when it yields none
FirstErr(w) ==
    LET errs == {i \in 1..Len(w) : w[i].kind = "err"} IN
    IF errs = {} THEN 0 ELSE CHOOSE i \in errs : \A j \in errs : i <= j

\* C11: in get_files, get_files_by_pattern, get_recently_modified_files and
\* calculate_directory_size, the first traversal error the walk meets ends the
\* call at that item: the call returns Err(that error), which carries no
\* record and no sum, and no later item of the walk is visited.
C11_TraversalErrorAborts ==
    LET k == FirstErr(walk) IN
    k > 0 =>
        /\ (fpos > k => fret = RetErr("WalkDir") /\ fpos = k + 1)
        /\ (call # "none" /\ cpos > k => cret = RetErr("WalkDir") /\ cpos = k + 1)

C11_Witness ==
    /\ Len(walk) = 3
    /\ FirstErr(walk) = 2
    /\ Len(files) = 1
    /\ fret = RetErr("WalkDir")
    /\ call = "calculate_directory_size"
    /\ total_size = 100
    /\ cret = RetErr("WalkDir")

RECURSIVE SumSizes(_)
SumSizes(fs) == IF fs = <<>> THEN 0 ELSE fs[1].size + SumSizes(Tail(fs))

\* C12: for every tree on which both calls succeed, the sum of size() over
\* the records of get_files equals calculate_directory_size, also when the
\* metadata of some files cannot be read.
C12_SizesSumToDirectorySize ==
    /\ fret.done /\ fret.ok
    /\ call = "calculate_directory_size" /\ cret.done /\ cret.ok
    => SumSizes(fret.val) = cret.val

\* pat occurs in name, character for character
OccursIn(pat, name) ==
    \E a \in 1..(Len(name) + 1) :
        \A k \in 1..Len(pat) : a + k - 1 <= Len(name) /\ name[a + k - 1] = pat[k]

RECURSIVE Matching(_, _)
Matching(fs, pat) ==
    IF fs = <<>> THEN <<>>
    ELSE IF OccursIn(pat, fs[1].name) THEN <<fs[1]>> \o Matching(Tail(fs), pat)
    ELSE Matching(Tail(fs), pat)

\* C13: get_files_by_pattern(D, P) is the sub-sequence of get_files(D) made of
\* the records whose base file name contains P, compared case-sensitively:
\* every returned name contains P, no matching file is left out, and a pattern
\* found only in the name of a parent directory selects nothing.
C13_PatternSelectsByBaseName ==
    /\ fret.done /\ fret.ok
    /\ call = "get_files_by_pattern" /\ cret.done
    => /\ cret.ok
       /\ cret.val = Matching(fret.val, pattern)
       /\ \A k \in 1..Len(cret.val) : OccursIn(pattern, cret.val[k].name)
       /\ ((\A k \in 1..Len(fret.val) : ~OccursIn(pattern, fret.val[k].name))
              => cret.val = <<>>)

C13_Witness ==
    /\ fret.done /\ fret.ok /\ Len(fret.val) = 2
    /\ call = "get_files_by_pattern" /\ cret.done /\ cret.ok
    /\ pattern = <<".", "t">>
    /\ \E k \in 1..Len(walk) : walk[k].ftype = "symlink"
    /\ Len(cret.val) = 1
    /\ cret.val[1].name = <<"a", ".", "t">>
    /\ cret.val[1].path = <<"r", "/", "a", ".", "t">>

\* the regular files of the walk whose modification time can be read and is
\* at or after `limit`
RECURSIVE RecentOf(_, _)
RecentOf(w, limit) ==
    IF w = <<>> THEN <<>>
    ELSE IF IsRegular(w[1]) /\ w[1].meta.ok /\ w[1].meta.mtime_ok /\ w[1].meta.mtime >= limit
    THEN <<w[1]>> \o RecentOf(Tail(w), limit)
    ELSE RecentOf(Tail(w), limit)

SamePaths(fs, es) ==
    /\ Len(fs) = Len(es)
    /\ \A k \in 1..Len(fs) : fs[k].path = es[k].path /\ fs[k].name = es[k].name

\* whether now - days*86400 seconds is an instant at or after the earliest
\* one, and that instant; when it is not, every instant is after the cutoff
DaysWithinNow == U64Leq(days, U64Of(Now \div 86400))
TrueCutoff == IF DaysWithinNow THEN Now - U64ToNat(days) * 86400 ELSE 0

\* C14: get_recently_modified_files(root, days), when it returns Ok, returns
\* the regular files under root whose modification time is at or after the
\* cutoff now - days*86400 seconds, now being read once at the start; a file
\* exactly at the cutoff is kept, and a file whose modification time cannot
\* be read is left out without an error.
C14_RecentFilesAtOrAfterCutoff ==
    call = "get_recently_modified_files" /\ cret.done /\ cret.ok =>
        /\ (DaysWithinNow => cutoff = TrueCutoff)
        /\ SamePaths(cret.val, RecentOf(walk, TrueCutoff))
        /\ \A k \in 1..Len(walk) :
              IsRegular(walk[k]) /\ walk[k].meta.ok /\ ~walk[k].meta.mtime_ok
                 => \A j \in 1..Len(cret.val) : cret.val[j].path # walk[k].path

C14_Witness ==
    /\ call = "get_recently_modified_files" /\ cret.done /\ cret.ok
    /\ days = U64Of(1)
    /\ Len(walk) = 3
    /\ \E k \in 1..3 : walk[k].name = <<".", "h">>
    /\ \E k \in 1..3 : walk[k].name = <<"c", ".", "J">>
    /\ Len(cret.val) = 1
    /\ cret.val[1].name = <<"a", ".", "t">>
    /\ cret.val[1].modified = cutoff

\* C15: in get_recently_modified_files a failure to read the metadata of one
\* file skips that file only: on a walk without traversal errors, and with a
\* cutoff that can be computed, the call returns Ok with the qualifying files.
C15_MetadataFailureSkipsFile ==
    /\ call = "get_recently_modified_files" /\ cret.done
    /\ FirstErr(walk) = 0
    /\ DaysWithinNow
    => /\ cret.ok
       /\ SamePaths(cret.val, RecentOf(walk, TrueCutoff))

\* C29: for every u64 value of days, get_recently_modified_files either
\* works with the cutoff now - days*86400 seconds, computed without
\* wrap-around, or returns TimeError: it never panics and never takes a
\* cutoff later than the mathematically correct one.
C29_CutoffNeverWraps ==
    call = "get_recently_modified_files" =>
        IF DaysWithinNow
        THEN cutoff = TrueCutoff /\ cret # RetErr("TimeError") /\ cret # Panicked
        ELSE cret = RetErr("TimeError")

\* the entry of the walk a record was made from
EntryOf(r) == CHOOSE e \in {walk[k] : k \in 1..Len(walk)} : e.kind = "entry" /\ e.path = r.path

\* every list of records the scans have returned
ReturnedLists ==
    (IF fret.done /\ fret.ok THEN {fret.val} ELSE {})
      \cup (IF call \in {"get_files_by_pattern", "get_recently_modified_files"}
               /\ cret.done /\ cret.ok
            THEN {cret.val} ELSE {})

\* C16 as stated: every record a directory walk produces has the byte length
\* the metadata of its file reports; no size comes from elsewhere.
C16_SizeIsMetadataLength ==
    \A fs \in ReturnedLists : \A k \in 1..Len(fs) :
        /\ EntryOf(fs[k]).meta.ok
        /\ fs[k].size = EntryOf(fs[k]).meta.len

\* C16, amended: a record has the byte length the metadata reports when the
\* metadata and the modification time of its file can both be read; when
\* either cannot, the record is the fallback one, with size 0 and no
\* extension. get_recently_modified_files returns no fallback record.
C16_SizeIsMetadataLengthOrFallback ==
    /\ \A fs \in ReturnedLists : \A k \in 1..Len(fs) :
          LET m == EntryOf(fs[k]).meta IN
          IF m.ok /\ m.mtime_ok
          THEN fs[k].size = m.len /\ fs[k].modified = m.mtime
          ELSE fs[k].size = 0 /\ fs[k].extension = Nothing
    /\ (call = "get_recently_modified_files" /\ cret.done /\ cret.ok =>
          \A k \in 1..Len(cret.val) :
             /\ EntryOf(cret.val[k]).meta.ok
             /\ cret.val[k].size = EntryOf(cret.val[k]).meta.len)

C16_Witness ==
    /\ fret.done /\ fret.ok
    /\ Len(fret.val) = 3
    /\ \E k \in 1..3 : fret.val[k].name = <<"a", ".", "t">> /\ fret.val[k].size = 100
    /\ \E k \in 1..3 : fret.val[k].name = <<"c", ".", "J">> /\ fret.val[k].size = 0
    /\ \E k \in 1..3 : fret.val[k].name = <<"b">> /\ fret.val[k].size = 0
    /\ call = "get_files_by_pattern" /\ cret.done /\ cret.ok /\ Len(cret.val) = 3

\* ==================================================== content classification
\* infer::get_from_path(path): Err(io::Error) when the file cannot be read,
\* Ok(None) when no signature matches, Ok(Some(kind)) with the MIME type and
\* the matcher type of the signature found
SniffErr == [t |-> "Err"]
SniffNone == [t |-> "None"]
SniffSome(mime, matcher) == [t |-> "Some", mime |-> mime, matcher |-> matcher]

\* matcher_type_to_string
matcher_type_to_string ==
    [App |-> "Application", Archive |-> "Archive", Audio |-> "Audio", Book |-> "Book",
     Doc |-> "Document", Font |-> "Font", Image |-> "Image", Text |-> "Text",
     Video |-> "Video", Custom |-> "Custom"]

UpperChars ==
    <<"A", "B", "C", "D", "E", "F", "G", "H", "I", "J", "K", "L", "M",
      "N", "O", "P", "Q", "R", "S", "T", "U", "V", "W", "X", "Y", "Z">>
LowerChars ==
    <<"a", "b", "c", "d", "e", "f", "g", "h", "i", "j", "k", "l", "m",
      "n", "o", "p", "q", "r", "s", "t", "u", "v", "w", "x", "y", "z">>

\* an extension compared as it is written
as_written(str) == str

\* str::to_lowercase, on the letters A to Z
to_lowercase(str) ==
    [i \in 1..Len(str) |->
        IF \E k \in 1..26 : UpperChars[k] = str[i]
        THEN LowerChars[CHOOSE k \in 1..26 : UpperChars[k] = str[i]]
        ELSE str[i]]

\* the arms of `match kind.mime_type()`: MIME type -> accepted extensions
MimeExtensions ==
    [m \in {"image/jpeg", "image/png", "image/gif", "image/webp", "image/bmp",
            "audio/mpeg", "audio/wav", "audio/ogg", "audio/flac",
            "video/mp4", "video/x-matroska", "video/webm", "video/quicktime",
            "video/x-msvideo",
            "application/pdf", "application/msword",
            "application/vnd.openxmlformats-officedocument.wordprocessingml.document",
            "application/vnd.ms-excel",
            "application/vnd.openxmlformats-officedocument.spreadsheetml.sheet",
            "application/zip", "application/x-rar-compressed", "application/gzip",
            "application/x-7z-compressed"} |->
       CASE m = "image/jpeg" -> {<<"j", "p", "g">>, <<"j", "p", "e", "g">>}
         [] m = "image/png" -> {<<"p", "n", "g">>}
         [] m = "image/gif" -> {<<"g", "i", "f">>}
         [] m = "image/webp" -> {<<"w", "e", "b", "p">>}
         [] m = "image/bmp" -> {<<"b", "m", "p">>}
         [] m = "audio/mpeg" -> {<<"m", "p", "3">>}
         [] m = "audio/wav" -> {<<"w", "a", "v">>}
         [] m = "audio/ogg" -> {<<"o", "g", "g">>}
         [] m = "audio/flac" -> {<<"f", "l", "a", "c">>}
         [] m = "video/mp4" -> {<<"m", "p", "4">>}
         [] m = "video/x-matroska" -> {<<"m", "k", "v">>}
         [] m = "video/webm" -> {<<"w", "e", "b", "m">>}
         [] m = "video/quicktime" -> {<<"m", "o", "v">>}
         [] m = "video/x-msvideo" -> {<<"a", "v", "i">>}
         [] m = "application/pdf" -> {<<"p", "d", "f">>}
         [] m = "application/msword" -> {<<"d", "o", "c">>}
         [] m = "application/vnd.openxmlformats-officedocument.wordprocessingml.document"
              -> {<<"d", "o", "c", "x">>}
         [] m = "application/vnd.ms-excel" -> {<<"x", "l", "s">>}
         [] m = "application/vnd.openxmlformats-officedocument.spreadsheetml.sheet"
              -> {<<"x", "l", "s", "x">>}
         [] m = "application/zip" -> {<<"z", "i", "p">>}
         [] m = "application/x-rar-compressed" -> {<<"r", "a", "r">>}
         [] m = "application/gzip" -> {<<"g", "z">>, <<"g", "z", "i", "p">>}
         [] m = "application/x-7z-compressed" -> {<<"7", "z">>}]

\* the value of the match: the arm of the MIME type, `_ => true` otherwise
Valid(mime, extension) ==
    IF mime \in DOMAIN MimeExtensions THEN extension \in MimeExtensions[mime] ELSE TRUE

\* a verdict for a record without extension that follows the table
NoExtensionByTable(mime) == mime \notin DOMAIN MimeExtensions

\* `None => return (false, Some(mime_type))`
NoExtension(mime) == FALSE

\* a validation that looks at the extension before the content
validate_extension_first(file, sniff) ==
    IF ~file.extension.some THEN <<FALSE, Nothing>>
    ELSE IF sniff.t # "Some" THEN <<TRUE, Nothing>>
    ELSE <<Valid(sniff.mime, to_lowercase(file.extension.val)), Some(sniff.mime)>>

\* a validation that reports a record without extension as a mismatch but
\* leaves out the MIME type it detected
validate_mismatch_unnamed(file, sniff) ==
    IF sniff.t # "Some" THEN <<TRUE, Nothing>>
    ELSE IF ~file.extension.some THEN <<FALSE, Nothing>>
    ELSE <<Valid(sniff.mime, to_lowercase(file.extension.val)), Some(sniff.mime)>>

\* validate_file_extension(file), `sniff` being what infer::get_from_path
\* answers for file.path()
validate_file_extension(file, sniff) ==
    IF sniff.t # "Some" THEN <<TRUE, Nothing>>
    ELSE IF ~file.extension.some THEN <<NoExtension(sniff.mime), Some(sniff.mime)>>
    ELSE <<Valid(sniff.mime, to_lowercase(file.extension.val)), Some(sniff.mime)>>

\* identified_files.entry(category).or_insert_with(Vec::new).push(file)
Push(map, category, file) ==
    Insert(map, category,
           IF category \in DOMAIN map THEN Append(map[category], file) ELSE <<file>>)

\* identify_files(file_entries), each entry with what infer::get_from_path
\* answers for it; identified_files is the map built so far
RECURSIVE identify_files(_, _)
identify_files(items, identified_files) ==
    IF items = <<>> THEN identified_files
    ELSE LET file == items[1].file
             sniff == items[1].sniff
         IN identify_files(Tail(items),
               CASE sniff.t = "Err" -> identified_files
                 [] sniff.t = "Some" ->
                      Push(identified_files, matcher_type_to_string[sniff.matcher], file)
                 [] sniff.t = "None" -> Push(identified_files, "Unknown", file))

\* a filter that keeps the records that validate
RECURSIVE find_matching_extensions(_, _)
find_matching_extensions(items, mismatched) ==
    IF items = <<>> THEN mismatched
    ELSE LET v == validate_file_extension(items[1].file, items[1].sniff) IN
         find_matching_extensions(Tail(items),
            IF v[1] /\ v[2].some
            THEN Append(mismatched, <<items[1].file, v[2].val>>)
            ELSE mismatched)

\* find_mismatched_extensions(file_entries); mismatched is the Vec built so far
RECURSIVE find_mismatched_extensions(_, _)
find_mismatched_extensions(items, mismatched) ==
    IF items = <<>> THEN mismatched
    ELSE LET v == validate_file_extension(items[1].file, items[1].sniff) IN
         find_mismatched_extensions(Tail(items),
            IF ~v[1] /\ v[2].some
            THEN Append(mismatched, <<items[1].file, v[2].val>>)
            ELSE mismatched)

\* records handed to validate_file_extension: a file made by
\* FileEntry::from(dir_entry), as the tests make it, and the answer of the
\* sniffer for its path
SniffNames ==
    {<<"x">>, <<".", "j", "p", "g">>, <<"x", ".", "j", "p", "g">>,
     <<"x", ".", "J", "P", "G">>, <<"x", ".", "j", "p", "e", "g">>,
     <<"x", ".", "p", "n", "g">>, <<"x", ".", "G", "z">>, <<"x", ".", "t", "a", "r">>}
SniffMetas == {Meta(100, Now - 3), MetaErr}
Sniffs ==
    {SniffErr, SniffNone,
     SniffSome("image/jpeg", "Image"), SniffSome("image/png", "Image"),
     SniffSome("application/gzip", "Archive"), SniffSome("application/x-tar", "Archive"),
     SniffSome("application/pdf", "Archive")}
ValidateInputs ==
    {[file |-> FileEntryFrom(Entry("file", n, m)), sniff |-> sn] :
        n \in SniffNames, m \in SniffMetas, sn \in Sniffs}

\* the entries handed to identify_files
IdentFile(name) == FileEntryFrom(Entry("file", name, Meta(100, Now - 3)))
IdentItems ==
    {[file |-> IdentFile(<<"a", ".", "j", "p", "g">>), sniff |-> SniffSome("image/jpeg", "Image")],
     [file |-> IdentFile(<<"b", ".", "p", "n", "g">>), sniff |-> SniffSome("image/png", "Image")],
     [file |-> IdentFile(<<"c", ".", "p", "d", "f">>), sniff |-> SniffSome("application/pdf", "Archive")],
     [file |-> IdentFile(<<"d">>), sniff |-> SniffNone],
     [file |-> IdentFile(<<"e", ".", "j", "p", "g">>), sniff |-> SniffErr],
     [file |-> IdentFile(<<"f", ".", "s", "h">>), sniff |-> SniffSome("text/x-shellscript", "Text")]}
IdentifyInputs == SeqsUpTo(IdentItems, MaxRecords)

\* the entries handed to find_mismatched_extensions
MismatchItems ==
    {[file |-> IdentFile(<<"r", ".", "j", "p", "g">>), sniff |-> SniffSome("image/jpeg", "Image")],
     [file |-> IdentFile(<<"w", ".", "p", "n", "g">>), sniff |-> SniffSome("image/jpeg", "Image")],
     [file |-> IdentFile(<<"n">>), sniff |-> SniffSome("image/jpeg", "Image")],
     [file |-> FileEntryFrom(Entry("file", <<"u", ".", "p", "n", "g">>, MetaErr)),
      sniff |-> SniffSome("image/png", "Image")],
     [file |-> IdentFile(<<"e", ".", "p", "n", "g">>), sniff |-> SniffErr],
     [file |-> IdentFile(<<"t", ".", "j", "p", "g">>), sniff |-> SniffSome("application/x-tar", "Archive")]}
MismatchInputs == SeqsUpTo(MismatchItems, MaxRecords)

IdentInit ==
    \/ fn = "validate_file_extension" /\ fn_arg \in ValidateInputs /\ fn_ret = 0
         /\ fn_done = FALSE
    \/ fn = "identify_files" /\ fn_arg \in IdentifyInputs /\ fn_ret = 0 /\ fn_done = FALSE
    \/ fn = "find_mismatched_extensions" /\ fn_arg \in MismatchInputs /\ fn_ret = 0
         /\ fn_done = FALSE

CallValidateFileExtension ==
    /\ fn = "validate_file_extension" /\ ~fn_done
    /\ fn_ret' = validate_file_extension(fn_arg.file, fn_arg.sniff)
    /\ fn_done' = TRUE
    /\ UNCHANGED <<fn, fn_arg, disk_vars, file_vars>>

CallIdentifyFiles ==
    /\ fn = "identify_files" /\ ~fn_done
    /\ fn_ret' = identify_files(fn_arg, <<>>)
    /\ fn_done' = TRUE
    /\ UNCHANGED <<fn, fn_arg, disk_vars, file_vars>>

CallFindMismatchedExtensions ==
    /\ fn = "find_mismatched_extensions" /\ ~fn_done
    /\ fn_ret' = find_mismatched_extensions(fn_arg, <<>>)
    /\ fn_done' = TRUE
    /\ UNCHANGED <<fn, fn_arg, disk_vars, file_vars>>

IdentNext == CallValidateFileExtension \/ CallIdentifyFiles \/ CallFindMismatchedExtensions

InitIdent == IdentInit /\ DiskIdle /\ FileIdle
SpecIdent == InitIdent /\ [][IdentNext]_vars

Validated == fn = "validate_file_extension" /\ fn_done

\* C17: validate_file_extension returns (true, None) whenever the content
\* type cannot be determined, be it that the sniffer finds no match or that
\* the file cannot be read, whether or not the record has an extension.
C17_UndeterminedTypeMatches ==
    Validated /\ fn_arg.sniff.t \in {"Err", "None"} => fn_ret = <<TRUE, Nothing>>

C17_Witness ==
    /\ Validated
    /\ fn_arg.sniff = SniffErr
    /\ ~fn_arg.file.extension.some
    /\ fn_arg.file.name = <<"x">>
    /\ fn_ret = <<TRUE, Nothing>>

\* C18: validate_file_extension returns (false, Some(detected MIME)) for every
\* record whose content type is detected and which has no extension, also
\* when the MIME type is not in the MIME-to-extension table.
C18_NoExtensionMismatches ==
    Validated /\ fn_arg.sniff.t = "Some" /\ ~fn_arg.file.extension.some =>
        fn_ret = <<FALSE, Some(fn_arg.sniff.mime)>>

C18_Witness ==
    /\ Validated
    /\ fn_arg.sniff.t = "Some"
    /\ fn_arg.sniff.mime = "application/x-tar"
    /\ ~fn_arg.file.extension.some
    /\ fn_ret = <<FALSE, Some("application/x-tar")>>

Jpeg(ext) == Validated /\ fn_arg.sniff.t = "Some" /\ fn_arg.sniff.mime = "image/jpeg"
                /\ fn_arg.file.extension = Some(ext)

\* C19: for a record with a detected MIME type and an extension,
\* validate_file_extension returns (m, Some(MIME)) with m true exactly when
\* the MIME type is not in the table or the lower-cased extension is one the
\* table accepts for it: JPEG content passes with "jpg", "JPG" and "jpeg" and
\* fails with "png".
C19_ExtensionCheckedAgainstTable ==
    /\ (Validated /\ fn_arg.sniff.t = "Some" /\ fn_arg.file.extension.some =>
          /\ fn_ret[2] = Some(fn_arg.sniff.mime)
          /\ fn_ret[1] = (\/ fn_arg.sniff.mime \notin DOMAIN MimeExtensions
                          \/ to_lowercase(fn_arg.file.extension.val)
                                \in MimeExtensions[fn_arg.sniff.mime]))
    /\ (Jpeg(<<"j", "p", "g">>) => fn_ret[1])
    /\ (Jpeg(<<"J", "P", "G">>) => fn_ret[1])
    /\ (Jpeg(<<"j", "p", "e", "g">>) => fn_ret[1])
    /\ (Jpeg(<<"p", "n", "g">>) => ~fn_ret[1])

C19_Witness ==
    /\ Jpeg(<<"J", "P", "G">>)
    /\ fn_ret = <<TRUE, Some("image/jpeg")>>

\* the records handed in whose type cannot be determined, in their order
RECURSIVE Undetermined(_)
Undetermined(items) ==
    IF items = <<>> THEN <<>>
    ELSE IF items[1].sniff.t # "Some" THEN <<items[1].file>> \o Undetermined(Tail(items))
    ELSE Undetermined(Tail(items))

\* C20: identify_files never drops a record: the records whose content type
\* cannot be determined are, in their order, the list under the key "Unknown".
C20_UndeterminedUnderUnknown ==
    fn = "identify_files" /\ fn_done /\ Undetermined(fn_arg) # <<>> =>
        /\ "Unknown" \in DOMAIN fn_ret
        /\ fn_ret["Unknown"] = Undetermined(fn_arg)

\* the verdict and the MIME type validate_file_extension gives for an item
Verdict(item) == validate_file_extension(item.file, item.sniff)

\* the items that fail validation, in their order
RECURSIVE Failing(_)
Failing(items) ==
    IF items = <<>> THEN <<>>
    ELSE IF ~Verdict(items[1])[1] THEN <<items[1]>> \o Failing(Tail(items))
    ELSE Failing(Tail(items))

Mismatched == fn = "find_mismatched_extensions" /\ fn_done

\* C21: find_mismatched_extensions returns, in input order, exactly the
\* records for which validate_file_extension reports matches = false, each
\* with the MIME type detected for it; a record that validates is not in it.
C21_MismatchesInOrder ==
    Mismatched =>
        /\ Len(fn_ret) = Len(Failing(fn_arg))
        /\ \A k \in 1..Len(fn_ret) :
              /\ fn_ret[k][1] = Failing(fn_arg)[k].file
              /\ fn_ret[k][2] = Failing(fn_arg)[k].sniff.mime
        /\ \A i \in 1..Len(fn_arg) :
              Verdict(fn_arg[i])[1] =>
                 \A k \in 1..Len(fn_ret) : fn_ret[k][1] # fn_arg[i].file

C21_Witness ==
    /\ Mismatched
    /\ Len(fn_arg) = 3
    /\ fn_arg[1].file.name = <<"w", ".", "p", "n", "g">>
    /\ fn_arg[2].file.name = <<"r", ".", "j", "p", "g">>
    /\ fn_arg[3].file.name = <<"n">>
    /\ Len(fn_ret) = 2
    /\ fn_ret[1][1].name = <<"w", ".", "p", "n", "g">> /\ fn_ret[1][2] = "image/jpeg"
    /\ fn_ret[2][1].name = <<"n">>

\* C27: validate_file_extension never returns (false, None), so the inner
\* MIME test of find_mismatched_extensions discards no record that failed
\* validation.
C27_MismatchNamesItsMime ==
    /\ (Validated /\ ~fn_ret[1] => fn_ret[2].some)
    /\ (Mismatched =>
          \A i \in 1..Len(fn_arg) :
             fn_arg[i].sniff.t = "Some"
               /\ (~fn_arg[i].file.extension.some
                     \/ ~Valid(fn_arg[i].sniff.mime, to_lowercase(fn_arg[i].file.extension.val)))
                => \E k \in 1..Len(fn_ret) : fn_ret[k][1] = fn_arg[i].file)

C27_Witness ==
    /\ Validated
    /\ fn_arg.file.name = <<"x", ".", "j", "p", "g">>
    /\ ~fn_arg.file.extension.some
    /\ fn_arg.sniff.t = "Some" /\ fn_arg.sniff.mime = "image/jpeg"
    /\ fn_ret = <<FALSE, Some("image/jpeg")>>

CategoryNames ==
    {"Application", "Archive", "Audio", "Book", "Document", "Font", "Image", "Text",
     "Video", "Custom", "Unknown"}

\* the category of an item whose content type is whatever the sniffer says
CategoryOf(item) ==
    IF item.sniff.t # "Some" THEN "Unknown"
    ELSE CASE item.sniff.matcher = "App" -> "Application"
           [] item.sniff.matcher = "Doc" -> "Document"
           [] OTHER -> item.sniff.matcher

RECURSIVE InCategory(_, _)
InCategory(items, c) ==
    IF items = <<>> THEN <<>>
    ELSE IF CategoryOf(items[1]) = c THEN <<items[1].file>> \o InCategory(Tail(items), c)
    ELSE InCategory(Tail(items), c)

\* C28: the result of identify_files is a partition of its input: each input
\* record is in the list of its category and in no other, each list keeps the
\* input order, no key has an empty list, every key is one of the eleven
\* category names, and the lengths of the lists sum to the number of records.
C28_IdentifyPartitionsInput ==
    fn = "identify_files" /\ fn_done =>
        /\ DOMAIN fn_ret \subseteq CategoryNames
        /\ \A c \in DOMAIN fn_ret : fn_ret[c] # <<>>
        /\ \A c \in CategoryNames :
              IF InCategory(fn_arg, c) = <<>> THEN c \notin DOMAIN fn_ret
              ELSE c \in DOMAIN fn_ret /\ fn_ret[c] = InCategory(fn_arg, c)

\* ================================================ get_disks claims, continued
\* C23: whatever the collaborator answers, the partition ids of a get_disks
\* result are 0, 1, ..., N-1 without gaps, N being the number of partitions
\* returned: a skipped partition takes no id, and a skipped disk leaves the
\* shared counter as it found it.
C23_IdsAreZeroToN ==
    LET ids == IdsOf(disks)
        inHand == IF pc = "parts" THEN partitions ELSE <<>>
    IN /\ \A k \in 1..Len(ids) : ids[k] = k - 1
       /\ \A k \in 1..Len(inHand) : inHand[k].id = Len(ids) + k - 1
       /\ partition_count = Len(ids) + Len(inHand)

C23_Witness ==
    /\ result = "Ok"
    /\ n_disks = 2
    /\ origin = <<2>>
    /\ part_n = 2
    /\ Len(disks[1].partitions) = 1
    /\ disks[1].partitions[1].id = 0
    /\ partition_count = 1

\* C24: removable has no default: a disk whose record has neither a
\* capability-description array nor a boolean Removable attribute of its own
\* is left out of the result, even when all its other attributes are valid.
C24_NoRemovableNoDisk ==
    Decided /\ ~CapsArray(cur.base) /\ ~AttrIs(cur.base, "Removable", "Bool")
        => ~InSeq(cur.idx, origin)

C24_Witness ==
    /\ Decided
    /\ cur.base = Remove(BaseDisk(cur.idx), "CapabilityDescriptions")
    /\ cur.asked /\ ~cur.sresp.err /\ Len(cur.sresp.rows) > 0
    /\ ~InSeq(cur.idx, origin)
    /\ result = "Ok"
    /\ Len(disks) = 1

\* C25 as stated: a collected disk takes its enriched model, serial and kind
\* from the secondary record of its own index only, also when its device
\* identifier has no parsable number.
C25_EnrichedFromOwnRecord ==
    Collected /\ cur.asked /\ Len(cur.sresp.rows) > 0 =>
        /\ Last(disks).model = <<"P", "D", DigitChar(cur.idx - 1)>>
        /\ Last(disks).serial = <<"F", DigitChar(cur.idx - 1)>>

FrameKeys == {"Model", "SerialNumber", "Kind", "Removable"}

\* C26: update_disk_info changes no attribute other than Model, SerialNumber,
\* Kind and Removable; when the secondary lookup succeeds with no record,
\* Model, SerialNumber and Kind keep their base values, and the disk is
\* returned with the base model and serial, and with kind Unknown(-1) when
\* the base record has no Kind.
C26_EnrichmentFrame ==
    /\ (cur.set /\ cur.asked /\ ~cur.sresp.err =>
          /\ DOMAIN cur.info \ FrameKeys = DOMAIN cur.base \ FrameKeys
          /\ \A k \in DOMAIN cur.base \ FrameKeys : cur.info[k] = cur.base[k]
          /\ (Len(cur.sresp.rows) = 0 =>
                \A k \in {"Model", "SerialNumber", "Kind"} :
                   /\ (k \in DOMAIN cur.info <=> k \in DOMAIN cur.base)
                   /\ (k \in DOMAIN cur.base => cur.info[k] = cur.base[k])))
    /\ (Decided /\ cur.asked /\ ~cur.sresp.err /\ Len(cur.sresp.rows) = 0
          /\ RequiredPresent(cur.info) /\ ~cur.presp.err =>
          /\ Collected
          /\ Last(disks).model = cur.base["Model"].v
          /\ Last(disks).serial = cur.base["SerialNumber"].v
          /\ ("Kind" \notin DOMAIN cur.base =>
                Last(disks).kind = [kind |-> "Unknown", code |-> -1]))

C26_Witness ==
    /\ Collected
    /\ cur.asked /\ ~cur.sresp.err /\ Len(cur.sresp.rows) = 0
    /\ "Kind" \notin DOMAIN cur.base
    /\ Last(disks).model = <<"W", "D", "C">>
    /\ Last(disks).serial = <<"S", "N">>
    /\ Last(disks).kind.kind = "Unknown" /\ Last(disks).kind.code = -1

\* ------------------------------------------------------------------ Display
\* what a formatting leaves behind: a panic at one of its computations, or
\* the numbers it printed
FmtPanic(at) == [panic |-> TRUE, at |-> at]

\* impl Display for Partition: `self.total_space - self.available_space`,
\* a u64 subtraction, gives the used space that is printed
partition_fmt(p, build) ==
    LET used_space == U64Sub(p.total_space, p.available_space) IN
    IF used_space.overflow /\ build = "debug"
    THEN FmtPanic("used_space")
    ELSE [panic |-> FALSE, used_space |-> used_space.val]

\* partitions.iter().map(|p| p.total_space()).sum()
RECURSIVE SumTotalSpace(_)
SumTotalSpace(parts) ==
    IF parts = <<>> THEN [val |-> U64Zero, overflow |-> FALSE]
    ELSE LET before == SumTotalSpace(SubSeq(parts, 1, Len(parts) - 1))
             sum == U64Add(before.val, parts[Len(parts)].total_space)
         IN  [val |-> sum.val, overflow |-> before.overflow \/ sum.overflow]

\* impl Display for Disk: an Unknown kind returns after its one line; the
\* other kinds sum the partitions' total space and, when there are
\* partitions, format each of them and subtract the sum from the size
disk_fmt(d, build) ==
    IF d.kind.kind = "Unknown"
    THEN [panic |-> FALSE, kind_only |-> TRUE]
    ELSE
      LET total_allocated == SumTotalSpace(d.partitions)
          each == [i \in 1..Len(d.partitions) |-> partition_fmt(d.partitions[i], build)]
          unallocated == U64Sub(d.size, total_allocated.val)
      IN  IF total_allocated.overflow /\ build = "debug"
          THEN FmtPanic("total_allocated")
          ELSE IF d.partitions = <<>>
          THEN [panic |-> FALSE, kind_only |-> FALSE, used_space |-> <<>>]
          ELSE IF \E i \in 1..Len(each) : each[i].panic
          THEN FmtPanic("used_space")
          ELSE IF unallocated.overflow /\ build = "debug"
          THEN FmtPanic("unallocated")
          ELSE [panic |-> FALSE, kind_only |-> FALSE,
                used_space |-> [i \in 1..Len(each) |-> each[i].used_space],
                total_allocated |-> total_allocated.val,
                unallocated |-> unallocated.val]

\* constructor arguments: any u64 is a total space, an available space and
\* a size; a few small ones and 2^63
TotalSpaces == {U64Of(0), U64Of(100), U64Of(2000), <<0, 0, 0, 0, 0, 0, 0, 128>>}
AvailableSpaces == {U64Of(0), U64Of(100), U64Of(200)}
DiskSizes == {U64Of(0), U64Of(100), U64Of(2100)}
DisplayKinds == {HDD, UnknownKind(5)}

DisplayPartitions ==
    {Partition(0, <<"C", ":">>, FileSystem("NTFS", <<"C", ":">>, <<"C", ":", BS>>), t, a) :
        t \in TotalSpaces, a \in AvailableSpaces}

DisplayDisks ==
    {Disk(<<"W", "D">>, <<"W", "D">>, <<"S", "N">>, k, size, FALSE, ps) :
        k \in DisplayKinds, size \in DiskSizes, ps \in SeqsUpTo(DisplayPartitions, MaxParts)}

DisplayInit ==
    /\ fn_ret = 0 /\ fn_done = FALSE
    /\ \/ fn = "Partition::fmt" /\ fn_arg \in DisplayPartitions
       \/ fn = "Disk::fmt" /\ fn_arg \in DisplayDisks

CallPartitionFmt ==
    /\ fn = "Partition::fmt" /\ ~fn_done
    /\ \E build \in Builds : fn_ret' = partition_fmt(fn_arg, build)
    /\ fn_done' = TRUE
    /\ UNCHANGED <<fn, fn_arg, disk_vars, file_vars>>

CallDiskFmt ==
    /\ fn = "Disk::fmt" /\ ~fn_done
    /\ \E build \in Builds : fn_ret' = disk_fmt(fn_arg, build)
    /\ fn_done' = TRUE
    /\ UNCHANGED <<fn, fn_arg, disk_vars, file_vars>>

DisplayNext == CallPartitionFmt \/ CallDiskFmt

InitDisplay == DisplayInit /\ DiskIdle /\ FileIdle
SpecDisplay == InitDisplay /\ [][DisplayNext]_vars

\* a + b = c without carry
U64SumIs(a, b, c) == U64Add(a, b) = [val |-> c, overflow |-> FALSE]

\* C30: formatting a Partition built with Partition::new, or a Disk built
\* with Disk::new from such partitions, never underflows: no subtraction
\* panics, every used space printed is total_space - available_space as a
\* non-negative number, and the unallocated space is the size minus the sum
\* of the partitions' total space as a non-negative number.
C30_DisplayNeverUnderflows ==
    /\ (fn = "Partition::fmt" /\ fn_done =>
           /\ ~fn_ret.panic
           /\ U64SumIs(fn_ret.used_space, fn_arg.available_space, fn_arg.total_space))
    /\ (fn = "Disk::fmt" /\ fn_done =>
           /\ (fn_ret.panic => fn_ret.at = "total_allocated")
           /\ (~fn_ret.panic /\ ~fn_ret.kind_only =>
                  /\ \A i \in 1..Len(fn_ret.used_space) :
                        U64SumIs(fn_ret.used_space[i], fn_arg.partitions[i].available_space,
                                 fn_arg.partitions[i].total_space)
                  /\ (fn_arg.partitions # <<>> =>
                         U64SumIs(fn_ret.unallocated, fn_ret.total_allocated, fn_arg.size))))

\* --------------------------------------------------------- duplicate finder
\* a file as the finder meets it: its record, the bytes a read of it gives,
\* and whether the read succeeds
DupFile(i, content, readable) ==
    [file |-> FileEntry(<<"r", "/", DigitChar(i)>>, <<DigitChar(i)>>, Nothing,
                        Len(content), Now),
     content |-> content, readable |-> readable]

\* the content hash: a digest of fixed size (one byte here) over all the
\* bytes of the file
RECURSIVE ByteSum(_)
ByteSum(content) == IF content = <<>> THEN 0 ELSE content[1] + ByteSum(Tail(content))
Digest(content) == ByteSum(content) % 256

\* every file takes part in the bucketing
ConsideredAll(records) == {records[i] : i \in 1..Len(records)}

\* step (1): empty files are discarded, they are never considered
Considered(records) == {f \in {records[i] : i \in 1..Len(records)} : f.file.size # 0}

\* steps (1) and (4): two files are grouped when they are in the same size
\* bucket and have the same hash
SameGroup(f, g) == f.file.size = g.file.size /\ Digest(f.content) = Digest(g.content)

\* step (3): a file whose hashing fails is removed from consideration
Hashed(bucketed) == {f \in bucketed : f.readable}

\* the duplicate finder: (1) bucket by size without the empty files, (2) drop
\* the buckets of fewer than two files, (3) hash the files left, (4) group
\* them by hash, (5) emit the groups of two files or more
find_duplicates(records) ==
    LET considered == Considered(records)
        Bucket(size) == {f \in considered : f.file.size = size}
        bucketed == {f \in considered : Cardinality(Bucket(f.file.size)) >= 2}
        hashed == Hashed(bucketed)
        Group(f) == {g \in hashed : SameGroup(f, g)}
    IN  {grp \in {Group(f) : f \in hashed} : Cardinality(grp) >= 2}

\* the trees: at most MaxEntries records, each with one of a few contents, two
\* of them of equal length and equal digest, and a read that works or fails
DupContents == {<<>>, <<1>>, <<3>>, <<1, 2>>, <<2, 1>>}
DupFiles(i) == {DupFile(i, c, r) : c \in DupContents, r \in BOOLEAN}

RECURSIVE DupTrees(_)
DupTrees(n) ==
    IF n = 0 THEN {<<>>}
    ELSE DupTrees(n - 1)
           \cup {Append(q, f) : q \in {r \in DupTrees(n - 1) : Len(r) = n - 1}, f \in DupFiles(n)}

DupInit ==
    /\ fn = "find_duplicates" /\ fn_ret = 0 /\ fn_done = FALSE
    /\ fn_arg \in DupTrees(MaxEntries)

CallFindDuplicates ==
    /\ fn = "find_duplicates" /\ ~fn_done
    /\ fn_ret' = find_duplicates(fn_arg)
    /\ fn_done' = TRUE
    /\ UNCHANGED <<fn, fn_arg, disk_vars, file_vars>>

DupNext == CallFindDuplicates

InitDup == DupInit /\ DiskIdle /\ FileIdle
SpecDup == InitDup /\ [][DupNext]_vars

\* the files of the tree, and whether two of them were put in one group
TreeFiles == {fn_arg[i] : i \in 1..Len(fn_arg)}
Together(f, g) == \E grp \in fn_ret : f \in grp /\ g \in grp
Found == fn = "find_duplicates" /\ fn_done

====
